---- MODULE Spec2Model ----
(***************************************************************************)
(* A model of the PprofVisualizer backend: the in-memory store             *)
(* (MemStorage), the REST handlers that sit on it (registerRoutes) and the *)
(* allow-listed command runner (PprofCli).                                 *)
(*                                                                         *)
(* JavaScript values of loosely typed fields are written as strings:       *)
(* "true" and "false" are the booleans, "undefined" is undefined and a     *)
(* text in single quotes ("'false'") is a JavaScript string.               *)
(***************************************************************************)
EXTENDS Integers, Sequences, FiniteSets, TLC

VARIABLES
    profiles,             \* MemStorage.profiles: Map<number, Profile>
    connections,          \* MemStorage.connections: Map<number, Connection>
    profileCurrentId,     \* MemStorage.profileCurrentId
    connectionCurrentId,  \* MemStorage.connectionCurrentId
    now,                  \* the wall clock read by new Date(), in hours
    last,                 \* the latest mutating store call: [op, id, ret], arg of an update
    created,              \* history: id -> [by, ins, rec] of every profile ever created
    createdConns,         \* history: id -> the connection as createConnection returned it
    updated,              \* history: profile ids a successful updateProfile was applied to
    deleted,              \* history: profile ids a successful deleteProfile removed
    steps,                \* number of mutating calls and requests made so far
    res,                  \* the latest HTTP response: [route, id, status, body]
    trace,                \* the latest request, followed by the calls its handler made
    patchReq,             \* the PATCH /profiles/:id awaiting its updateProfile, if any
    cliReq,               \* the POST /cli-profile awaiting its runCommand, if any
    uploadsDir,           \* the files in the uploads directory
    cliEntry,             \* the call on PprofCli's public interface: [method, input]
    cliCall,              \* the latest runCommand call: [command, args]
    spawned,              \* what that call handed to spawn, if it spawned: [file, args]
    child,                \* the child process still running, if any
    cliResult,            \* what the promise of that call resolved to, if settled
    parsers,              \* the parseData calls: number -> [pc, rawData, tempFilePath, ...]
    tempDir,              \* the files in the temp directory: path -> content
    functionIds,          \* the ids generateFunctionId returned: function name -> id
    topProps,             \* the props of the mounted TopFunctions component, if any
    expandedFunctionId,   \* its state expandedFunctionId: None is null
    rowClicked            \* the last click on a row: the row and whether it was expanded

storeVars == <<profiles, connections, profileCurrentId, connectionCurrentId, now,
               last, created, createdConns, updated, deleted>>

restVars == <<res, trace, patchReq, cliReq, uploadsDir>>

cliVars == <<cliEntry, cliCall, spawned, child, cliResult>>

parseVars == <<parsers, tempDir>>

uiVars == <<topProps, expandedFunctionId, rowClicked>>

auxVars == <<parseVars, functionIds, uiVars>>

vars == <<storeVars, steps, restVars, cliVars, auxVars>>

(***************************************************************************)
(* Bounds of the model.                                                    *)
(***************************************************************************)
MaxSteps == 3
MaxProfileId == 5
MaxConnectionId == 3
MaxLimit == 3
MaxTime == 8
MaxCommandLen == 3
MaxArgLen == 3
MaxQueryLen == 2
MaxInFlight == 1
MaxParsers == 2
MaxNameLen == 2
MaxFunctions == 3
MaxRows == 3

(***************************************************************************)
(* JavaScript helpers.                                                     *)
(***************************************************************************)
Undefined == "undefined"

\* ToBoolean of a value of the encoding above.
Truthy(v) == v \notin {"false", "undefined", "null", "''", "0"}

\* A spread in which the keys of a win over those of b.
Spread_leftWins(a, b) ==
    [k \in DOMAIN a \cup DOMAIN b |-> IF k \in DOMAIN a THEN a[k] ELSE b[k]]

\* { ...a, ...b }: every own key of b, an undefined one included, overrides a.
Spread(a, b) == [k \in DOMAIN a \cup DOMAIN b |-> IF k \in DOMAIN b THEN b[k] ELSE a[k]]

Min(a, b) == IF a < b THEN a ELSE b
Max(a, b) == IF a > b THEN a ELSE b

(***************************************************************************)
(* The clock. One unit is half an hour.                                    *)
(***************************************************************************)
StartTime == 6
HalfHourAgo == 1
OneHourAgo == 2
TwoHoursAgo == 4
ThreeHoursAgo == 6
NullTime == -1

\* The instants new Date() can yield at the next call: time never runs back.
ClockReadings == now .. Min(now + 1, MaxTime)

(***************************************************************************)
(* Records.  A Profile and a Connection are functions from field names to  *)
(* values, so that a Partial<Profile> is a function on some of the names.  *)
(***************************************************************************)
ProfileFields == {"id", "filename", "originalFilename", "profileType", "size",
                  "description", "metadata", "uploadedAt", "isSaved", "data"}

InsertProfileFields == ProfileFields \ {"id", "uploadedAt"}

ConnectionFields == {"id", "name", "url", "lastConnected", "isActive"}

\* The three sample profiles and the sample connection of initSampleData.
cpuProfile(id, t) ==
    [id |-> id, filename |-> "sample_cpu_profile.pprof",
     originalFilename |-> "main_cpu.pprof", profileType |-> "cpu", size |-> 245789,
     description |-> "Sample CPU profile from Go web service", metadata |-> "cpu-meta",
     uploadedAt |-> t - OneHourAgo, isSaved |-> "true", data |-> "cpu-data"]

heapProfile(id, t) ==
    [id |-> id, filename |-> "sample_heap_profile.pprof",
     originalFilename |-> "api_heap.pprof", profileType |-> "heap", size |-> 178234,
     description |-> "Sample Heap profile from API service", metadata |-> "heap-meta",
     uploadedAt |-> t - TwoHoursAgo, isSaved |-> "true", data |-> "heap-data"]

blockProfile(id, t) ==
    [id |-> id, filename |-> "sample_block_profile.pprof",
     originalFilename |-> "worker_block.pprof", profileType |-> "block", size |-> 89456,
     description |-> "Sample Block profile from worker service", metadata |-> "block-meta",
     uploadedAt |-> t - ThreeHoursAgo, isSaved |-> "false", data |-> "block-data"]

sampleConnection(id, t) ==
    [id |-> id, name |-> "Local Development Server",
     url |-> "http://localhost:6060/debug/pprof/",
     lastConnected |-> t - HalfHourAgo, isActive |-> "false"]

\* The InsertProfile values the callers pass (the test suite's testProfile and
\* its variations).
testProfile ==
    [filename |-> "test_profile.pprof", originalFilename |-> "profile.pprof",
     profileType |-> "cpu", size |-> 1024, description |-> "Test profile",
     metadata |-> "no-functions", isSaved |-> "false", data |-> "base64data"]

InsertProfiles ==
    {testProfile,
     Spread(testProfile, [filename |-> "test_saved.pprof", isSaved |-> "true"])}

\* The Partial<Profile> values passed to updateProfile.
ProfileUpdates ==
    {[description |-> "Updated description", isSaved |-> "true"],
     [isSaved |-> "false"],
     [description |-> "test"],
     [uploadedAt |-> 0],
     [uploadedAt |-> MaxTime]}

testConnection ==
    [name |-> "Test Connection", url |-> "http://test.example.com:8080/debug/pprof",
     isActive |-> "true"]

\* The test suite's connection, and the name and url alone that the client sends.
InsertConnections ==
    {testConnection, [name |-> "Test Connection 2", url |-> "http://test2.example.com:8080/debug/pprof"]}

\* The Partial<Connection> values passed to updateConnection.
ConnectionUpdates ==
    {[name |-> "Updated Connection Name", isActive |-> "false"], [isActive |-> "true"]}

(***************************************************************************)
(* Option values: <<>> is undefined, <<v>> is the value v.                 *)
(***************************************************************************)
None == <<>>
Some(v) == <<v>>

(***************************************************************************)
(* MemStorage: the read operations. A read leaves the store as it is, so   *)
(* it is an operator on the state and no action of its own.                *)
(***************************************************************************)
RECURSIVE KeysAscending(_)
\* The keys of a map in ascending order.
KeysAscending(S) ==
    IF S = {} THEN <<>>
    ELSE LET m == CHOOSE x \in S : \A y \in S : x <= y
         IN <<m>> \o KeysAscending(S \ {m})

\* Array.from(map.values()): the values in insertion order. Keys are inserted in
\* ascending order (initSampleData and the create operations take them from the
\* counters) and Map.set on a present key keeps its place.
Values(map) ==
    LET keys == KeysAscending(DOMAIN map)
    IN [i \in 1 .. Len(keys) |-> map[keys[i]]]

\* The comparator with its operands exchanged: oldest first.
compareUploadedAt_ascending(a, b) == a.uploadedAt - b.uploadedAt

\* The comparator of the three sorted listings: negative when a goes first.
compareUploadedAt(a, b) == b.uploadedAt - a.uploadedAt

RECURSIVE InsertSorted(_, _)
\* One step of a stable sort: x goes behind every element it does not precede.
InsertSorted(x, sorted) ==
    IF sorted = <<>> THEN <<x>>
    ELSE IF compareUploadedAt(x, Head(sorted)) < 0
         THEN <<x>> \o sorted
         ELSE <<Head(sorted)>> \o InsertSorted(x, Tail(sorted))

RECURSIVE SortProfiles(_)
\* Array.prototype.sort with compareUploadedAt: stable.
SortProfiles(seq) ==
    IF seq = <<>> THEN <<>>
    ELSE InsertSorted(seq[Len(seq)], SortProfiles(SubSeq(seq, 1, Len(seq) - 1)))

\* Array.prototype.slice(0, end): a negative end counts from the end of the array.
Slice0(seq, end) ==
    LET n == Len(seq)
        k == IF end < 0 THEN Max(n + end, 0) ELSE Min(end, n)
    IN SubSeq(seq, 1, k)

\* The filter left out.
FilterSaved_keepsAll(seq) == seq

\* Array.prototype.filter with the predicate profile => profile.isSaved.
FilterSaved(seq) == SelectSeq(seq, LAMBDA profile : Truthy(profile.isSaved))

DefaultLimit == 10

\* getProfile answering with the stored profile of the lowest id, whatever the id.
getProfile_lowestId(id) ==
    IF DOMAIN profiles = {} THEN None
    ELSE Some(profiles[CHOOSE i \in DOMAIN profiles : \A j \in DOMAIN profiles : i <= j])

getProfile(id) == IF id \in DOMAIN profiles THEN Some(profiles[id]) ELSE None

getProfiles == SortProfiles(Values(profiles))

getSavedProfiles == SortProfiles(FilterSaved(Values(profiles)))

\* limitArg is None when the caller passes no limit.
getRecentProfiles(limitArg) ==
    LET limit == IF limitArg = None THEN DefaultLimit ELSE limitArg[1]
    IN Slice0(SortProfiles(Values(profiles)), limit)

getConnection(id) == IF id \in DOMAIN connections THEN Some(connections[id]) ELSE None

getConnections == Values(connections)

(***************************************************************************)
(* MemStorage: construction.                                               *)
(***************************************************************************)
\* The constructor without sample data: empty maps, both counters at 1.
InitEmpty ==
    /\ profiles = <<>>
    /\ connections = <<>>
    /\ profileCurrentId = 1
    /\ connectionCurrentId = 1
    /\ created = <<>>
    /\ createdConns = <<>>

\* The constructor that ends with initSampleData(): three profiles and one
\* connection, their ids taken from the counters.
InitSampleData ==
    LET cpu == cpuProfile(1, StartTime)
        heap == heapProfile(2, StartTime)
        block == blockProfile(3, StartTime)
        conn == sampleConnection(1, StartTime)
        asCreated(p) == [by |-> "initSampleData",
                         ins |-> [k \in InsertProfileFields |-> p[k]], rec |-> p]
    IN /\ profiles = (cpu.id :> cpu) @@ (heap.id :> heap) @@ (block.id :> block)
       /\ connections = (conn.id :> conn)
       /\ profileCurrentId = 4
       /\ connectionCurrentId = 2
       /\ created = (cpu.id :> asCreated(cpu)) @@ (heap.id :> asCreated(heap))
                        @@ (block.id :> asCreated(block))
       /\ createdConns = (conn.id :> conn)

StoreInit ==
    /\ InitEmpty \/ InitSampleData
    /\ now = StartTime
    /\ last = [op |-> "new", id |-> 0, ret |-> None]
    /\ updated = {}
    /\ deleted = {}

(***************************************************************************)
(* MemStorage: the operations, as calls on the store. Each sets `last` to  *)
(* the call and what it returned.                                          *)
(***************************************************************************)
MissingId == 9999

\* The ids a caller may pass: every id ever handed out, and one that never was.
ProfileIdArgs == DOMAIN created \cup {MissingId}
ConnectionIdArgs == DOMAIN createdConns \cup {MissingId}

\* The limits a caller may pass to getRecentProfiles.
LimitArgs == {None} \cup {Some(n) : n \in -1 .. MaxLimit}

\* createProfile taking the id from the size of the map instead of the counter.
storeCreateProfile_sizeAsId(insertProfile, t) ==
    LET id == Cardinality(DOMAIN profiles) + 1
        profile == Spread(insertProfile, [id |-> id, uploadedAt |-> t])
    IN /\ profileCurrentId' = profileCurrentId + 1
       /\ now' = t
       /\ profiles' = (id :> profile) @@ profiles
       /\ last' = [op |-> "createProfile", id |-> id, ret |-> Some(profile)]
       /\ created' = (id :> [by |-> "createProfile", ins |-> insertProfile, rec |-> profile])
                         @@ created
       /\ UNCHANGED <<connections, connectionCurrentId, createdConns, updated, deleted>>

\* createProfile storing a record that lost the caller's isSaved.
storeCreateProfile_dropsField(insertProfile, t) ==
    LET id == profileCurrentId
        profile == Spread(insertProfile, [id |-> id, uploadedAt |-> t])
        stored == [profile EXCEPT !.isSaved = "false"]
    IN /\ profileCurrentId' = profileCurrentId + 1
       /\ now' = t
       /\ profiles' = (id :> stored) @@ profiles
       /\ last' = [op |-> "createProfile", id |-> id, ret |-> Some(profile)]
       /\ created' = (id :> [by |-> "createProfile", ins |-> insertProfile, rec |-> profile])
                         @@ created
       /\ UNCHANGED <<connections, connectionCurrentId, createdConns, updated, deleted>>

storeCreateProfile(insertProfile, t) ==
    LET id == profileCurrentId
        profile == Spread(insertProfile, [id |-> id, uploadedAt |-> t])
    IN /\ profileCurrentId' = profileCurrentId + 1
       /\ now' = t
       /\ profiles' = (id :> profile) @@ profiles
       /\ last' = [op |-> "createProfile", id |-> id, ret |-> Some(profile)]
       /\ created' = (id :> [by |-> "createProfile", ins |-> insertProfile, rec |-> profile])
                         @@ created
       /\ UNCHANGED <<connections, connectionCurrentId, createdConns, updated, deleted>>

\* updateProfile without the early return: Map.set on an absent id.
storeUpdateProfile_upsert(id, profileUpdate) ==
    LET existing == IF id \in DOMAIN profiles THEN profiles[id] ELSE <<>>
        updatedProfile == Spread(existing, profileUpdate)
    IN /\ profiles' = (id :> updatedProfile) @@ profiles
       /\ last' = [op |-> "updateProfile", id |-> id, arg |-> profileUpdate,
                   ret |-> Some(updatedProfile)]
       /\ updated' = updated \cup {id}
       /\ UNCHANGED <<connections, profileCurrentId, connectionCurrentId, now,
                      created, createdConns, deleted>>

storeUpdateProfile(id, profileUpdate) ==
    IF id \notin DOMAIN profiles
    THEN /\ last' = [op |-> "updateProfile", id |-> id, arg |-> profileUpdate, ret |-> None]
         /\ UNCHANGED <<profiles, connections, profileCurrentId, connectionCurrentId,
                        now, created, createdConns, updated, deleted>>
    ELSE LET updatedProfile == Spread(profiles[id], profileUpdate)
         IN /\ profiles' = [profiles EXCEPT ![id] = updatedProfile]
            /\ last' = [op |-> "updateProfile", id |-> id, arg |-> profileUpdate,
                        ret |-> Some(updatedProfile)]
            /\ updated' = updated \cup {id}
            /\ UNCHANGED <<connections, profileCurrentId, connectionCurrentId, now,
                           created, createdConns, deleted>>

\* deleteProfile answering true whether or not the id was stored.
storeDeleteProfile_alwaysTrue(id) ==
    /\ profiles' = [k \in DOMAIN profiles \ {id} |-> profiles[k]]
    /\ last' = [op |-> "deleteProfile", id |-> id, ret |-> TRUE]
    /\ deleted' = IF id \in DOMAIN profiles THEN deleted \cup {id} ELSE deleted
    /\ UNCHANGED <<connections, profileCurrentId, connectionCurrentId, now, created,
                   createdConns, updated>>

storeDeleteProfile(id) ==
    /\ profiles' = [k \in DOMAIN profiles \ {id} |-> profiles[k]]
    /\ last' = [op |-> "deleteProfile", id |-> id, ret |-> (id \in DOMAIN profiles)]
    /\ deleted' = IF id \in DOMAIN profiles THEN deleted \cup {id} ELSE deleted
    /\ UNCHANGED <<connections, profileCurrentId, connectionCurrentId, now, created,
                   createdConns, updated>>

storeCreateConnection(insertConnection) ==
    LET id == connectionCurrentId
        connection == Spread(insertConnection, [id |-> id, lastConnected |-> NullTime])
    IN /\ connectionCurrentId' = connectionCurrentId + 1
       /\ connections' = (id :> connection) @@ connections
       /\ last' = [op |-> "createConnection", id |-> id, ret |-> Some(connection)]
       /\ createdConns' = (id :> connection) @@ createdConns
       /\ UNCHANGED <<profiles, profileCurrentId, now, created, updated, deleted>>

storeUpdateConnection(id, connectionUpdate) ==
    IF id \notin DOMAIN connections
    THEN /\ last' = [op |-> "updateConnection", id |-> id, arg |-> connectionUpdate,
                  ret |-> None]
         /\ UNCHANGED <<profiles, connections, profileCurrentId, connectionCurrentId,
                        now, created, createdConns, updated, deleted>>
    ELSE LET updatedConnection == Spread(connections[id], connectionUpdate)
         IN /\ connections' = [connections EXCEPT ![id] = updatedConnection]
            /\ last' = [op |-> "updateConnection", id |-> id, arg |-> connectionUpdate,
                        ret |-> Some(updatedConnection)]
            /\ UNCHANGED <<profiles, profileCurrentId, connectionCurrentId, now,
                           created, createdConns, updated, deleted>>

storeDeleteConnection(id) ==
    /\ connections' = [k \in DOMAIN connections \ {id} |-> connections[k]]
    /\ last' = [op |-> "deleteConnection", id |-> id, ret |-> (id \in DOMAIN connections)]
    /\ UNCHANGED <<profiles, profileCurrentId, connectionCurrentId, now, created,
                   createdConns, updated, deleted>>

(***************************************************************************)
(* The store driven directly, as the test suite drives it.                 *)
(***************************************************************************)
MaySpend == steps < MaxSteps

Spend == steps' = steps + 1

CreateProfile(insertProfile, t) ==
    /\ MaySpend
    /\ profileCurrentId <= MaxProfileId
    /\ storeCreateProfile(insertProfile, t)
    /\ Spend
    /\ UNCHANGED <<restVars, cliVars, auxVars>>

UpdateProfile(id, profileUpdate) ==
    /\ MaySpend
    /\ storeUpdateProfile(id, profileUpdate)
    /\ Spend
    /\ UNCHANGED <<restVars, cliVars, auxVars>>

DeleteProfile(id) ==
    /\ MaySpend
    /\ storeDeleteProfile(id)
    /\ Spend
    /\ UNCHANGED <<restVars, cliVars, auxVars>>

CreateConnection(insertConnection) ==
    /\ MaySpend
    /\ connectionCurrentId <= MaxConnectionId
    /\ storeCreateConnection(insertConnection)
    /\ Spend
    /\ UNCHANGED <<restVars, cliVars, auxVars>>

UpdateConnection(id, connectionUpdate) ==
    /\ MaySpend
    /\ storeUpdateConnection(id, connectionUpdate)
    /\ Spend
    /\ UNCHANGED <<restVars, cliVars, auxVars>>

DeleteConnection(id) ==
    /\ MaySpend
    /\ storeDeleteConnection(id)
    /\ Spend
    /\ UNCHANGED <<restVars, cliVars, auxVars>>

Init ==
    /\ StoreInit
    /\ steps = 0
    /\ res = [route |-> "none", id |-> 0, status |-> 0, body |-> None]
    /\ trace = <<>>
    /\ patchReq = None
    /\ cliReq = None
    /\ uploadsDir = {}
    /\ cliEntry = None
    /\ cliCall = None
    /\ spawned = None
    /\ child = None
    /\ cliResult = None
    /\ parsers = [p \in 1 .. MaxParsers |-> [pc |-> "idle"]]
    /\ tempDir = <<>>
    /\ functionIds = <<>>
    /\ topProps = None
    /\ expandedFunctionId = None
    /\ rowClicked = None

Next ==
    \/ \E p \in InsertProfiles, t \in ClockReadings : CreateProfile(p, t)
    \/ \E id \in ProfileIdArgs, u \in ProfileUpdates : UpdateProfile(id, u)
    \/ \E id \in ProfileIdArgs : DeleteProfile(id)
    \/ \E c \in InsertConnections : CreateConnection(c)
    \/ \E id \in ConnectionIdArgs, u \in ConnectionUpdates : UpdateConnection(id, u)
    \/ \E id \in ConnectionIdArgs : DeleteConnection(id)

Spec == Init /\ [][Next]_vars

\* The Partial<Profile> and Partial<Connection> values the types of updateProfile
\* and updateConnection admit: any fields of the record, its id among them.
PartialProfiles == ProfileUpdates \cup {[id |-> 2], [id |-> MissingId, isSaved |-> "true"]}

PartialConnections == ConnectionUpdates \cup {[id |-> 2]}

\* The store driven by a caller that passes any value of the parameter types.
PartialNext ==
    \/ \E p \in InsertProfiles, t \in ClockReadings : CreateProfile(p, t)
    \/ \E id \in ProfileIdArgs, u \in PartialProfiles : UpdateProfile(id, u)
    \/ \E id \in ProfileIdArgs : DeleteProfile(id)
    \/ \E c \in InsertConnections : CreateConnection(c)
    \/ \E id \in ConnectionIdArgs, u \in PartialConnections : UpdateConnection(id, u)
    \/ \E id \in ConnectionIdArgs : DeleteConnection(id)

PartialSpec == Init /\ [][PartialNext]_vars

(***************************************************************************)
(* registerRoutes: the handlers of the REST API. A request body is a       *)
(* function from the keys it carries to their values.                      *)
(***************************************************************************)
\* obj.key of a JSON object: undefined for a key it does not carry.
Field(obj, key) == IF key \in DOMAIN obj THEN obj[key] ELSE Undefined

\* The values that are no JavaScript string.
NonStrings == {"true", "false", "undefined", "null"}

IsString(v) == v \notin NonStrings
IsBoolean(v) == v \in {"true", "false"}

\* a || b
OrElse(a, b) == IF Truthy(a) THEN a ELSE b

\* Boolean(v)
ToBoolean(v) == IF Truthy(v) THEN "true" ELSE "false"

\* Buffer.toString('base64') of the file contents the model uploads.
Base64(content) ==
    CASE content = "raw1" -> "cmF3MQ=="

Respond(route, id, status, body) ==
    res' = [route |-> route, id |-> id, status |-> status, body |-> body]

\* A handler's catch block answering with status 200.
catchStatus_ok(isZodError) == 200

\* The status a handler's catch block answers with.
catchStatus(isZodError) == IF isZodError THEN 400 ELSE 500

\* The requests whose handlers wait for the store or for a child process.
InFlight == (IF patchReq # None THEN 1 ELSE 0) + (IF cliReq # None THEN 1 ELSE 0)

\* A request, or a call its handler makes, with the arguments.
Call(fn, args) == [fn |-> fn, args |-> args]

\* insertProfileSchema.parse: the columns of the profiles table without id and
\* uploadedAt; unknown keys are stripped. None when the data is rejected.
parseInsertProfile(data) ==
    LET ok == /\ \A k \in {"filename", "originalFilename", "profileType", "data"} :
                    k \in DOMAIN data /\ IsString(data[k])
              /\ "size" \in DOMAIN data
              /\ "metadata" \in DOMAIN data /\ data.metadata # Undefined
              /\ "description" \in DOMAIN data =>
                    (IsString(data.description) \/ data.description \in {"null", Undefined})
              /\ "isSaved" \in DOMAIN data =>
                    (IsBoolean(data.isSaved) \/ data.isSaved = Undefined)
    IN IF ok THEN Some([k \in DOMAIN data \cap InsertProfileFields |-> data[k]]) ELSE None

\* The paths of a body at which insertConnectionSchema finds an issue.
insertConnectionIssues(body) ==
    {k \in {"name", "url"} : ~(k \in DOMAIN body /\ IsString(body[k]))}
        \cup {k \in {"isActive"} : /\ k \in DOMAIN body
                                   /\ ~(IsBoolean(body[k]) \/ body[k] = Undefined)}

\* insertConnectionSchema.parse letting every body through.
parseInsertConnection_acceptsAll(body) ==
    Some([k \in DOMAIN body \cap {"name", "url", "isActive"} |-> body[k]])

\* insertConnectionSchema.parse: name and url are strings, isActive an optional
\* boolean; unknown keys are stripped. None when the body is rejected.
parseInsertConnection(body) ==
    IF insertConnectionIssues(body) = {}
    THEN Some([k \in DOMAIN body \cap {"name", "url", "isActive"} |-> body[k]])
    ELSE None

\* fromZodError(error).message: the issues of the error in one line.
fromZodError(issues) == [prefix |-> "Validation error", at |-> issues]

\* The files a client uploads: req.file of multer, None without a file part.
UploadFiles ==
    {None, Some([originalname |-> "main_cpu.pprof", size |-> 4, content |-> "raw1"])}

\* The text fields of the upload form.
UploadBodies ==
    {[profileType |-> "heap", isSaved |-> "'false'"],
     [description |-> "from the form", profileType |-> "cpu", isSaved |-> "'true'"]}

\* What parseFile yields: None when it throws.
ParseOutcomes == {None, Some("parsed-meta")}

\* An unlinkSync that removes nothing.
unlinkSync_noop(dir, path) == dir

\* fs.unlinkSync(path) in the finally block, run when the file exists.
unlinkSync(dir, path) == dir \ {path}

\* POST /profiles/upload, with the file multer wrote before the handler runs.
UploadProfile(file, body, parsed, t) ==
    /\ MaySpend
    /\ profileCurrentId <= MaxProfileId
    /\ Spend
    /\ UNCHANGED <<patchReq, cliReq, cliVars, auxVars>>
    /\ IF file = None
       THEN /\ Respond("POST /profiles/upload", 0, 400, Some("No profile file uploaded"))
            /\ trace' = <<Call("POST /profiles/upload", <<file, body>>)>>
            /\ UNCHANGED <<storeVars, uploadsDir>>
       ELSE LET uniqueName == "pprof_" \o ToString(now) \o "_" \o file[1].originalname
                written == uploadsDir \cup {uniqueName}
                profileData ==
                    [filename |-> uniqueName,
                     originalFilename |-> file[1].originalname,
                     profileType |-> OrElse(Field(body, "profileType"), "cpu"),
                     size |-> file[1].size,
                     description |-> OrElse(Field(body, "description"), ""),
                     metadata |-> IF parsed = None THEN Undefined ELSE parsed[1],
                     data |-> Base64(file[1].content),
                     isSaved |-> OrElse(ToBoolean(Field(body, "isSaved")), "false")]
                validatedData == parseInsertProfile(profileData)
                begun == <<Call("POST /profiles/upload", <<file, body>>),
                           Call("parseFile", <<uniqueName>>)>>
            IN /\ uploadsDir' = unlinkSync(written, uniqueName)
               /\ IF parsed = None
                  THEN /\ Respond("POST /profiles/upload", 0, catchStatus(FALSE),
                                  Some("Failed to upload and parse profile"))
                       /\ trace' = begun
                       /\ UNCHANGED storeVars
                  ELSE IF validatedData = None
                  THEN /\ Respond("POST /profiles/upload", 0, catchStatus(TRUE),
                                  Some("Invalid profile data"))
                       /\ trace' = begun
                       /\ UNCHANGED storeVars
                  ELSE /\ storeCreateProfile(validatedData[1], t)
                       /\ trace' = Append(begun, Call("createProfile", <<validatedData[1]>>))
                       /\ Respond("POST /profiles/upload", last'.id, 201, last'.ret)

\* GET /profiles/:id
GetProfileRequest(id) ==
    /\ MaySpend
    /\ Spend
    /\ trace' = <<Call("GET /profiles/:id", <<id>>), Call("getProfile", <<id>>)>>
    /\ LET profile == getProfile(id)
       IN IF profile = None
          THEN Respond("GET /profiles/:id", id, 404, Some("Profile not found"))
          ELSE Respond("GET /profiles/:id", id, 200, profile)
    /\ UNCHANGED <<storeVars, patchReq, cliReq, uploadsDir, cliVars, auxVars>>

\* The bodies of PATCH /profiles/:id requests: what the client sends, and
\* bodies naming other fields of a profile.
PatchBodies ==
    {<<>>,
     [isSaved |-> "true"],
     [description |-> "edited", isSaved |-> "false"],
     [id |-> 77, filename |-> "other.pprof", uploadedAt |-> 0, size |-> 0,
      data |-> "", isSaved |-> "'false'"]}

\* The whole body handed to the store.
patchUpdates_wholeBody(body) == body

\* The updates PATCH /profiles/:id builds from a body.
patchUpdates(body) ==
    [description |-> Field(body, "description"), isSaved |-> Field(body, "isSaved")]

\* PATCH /profiles/:id up to its await of getProfile.
PatchProfileBegin(id, body) ==
    /\ MaySpend
    /\ patchReq = None
    /\ getProfile(id) # None => InFlight < MaxInFlight
    /\ Spend
    /\ trace' = <<Call("PATCH /profiles/:id", <<id, body>>), Call("getProfile", <<id>>)>>
    /\ UNCHANGED <<storeVars, cliReq, uploadsDir, cliVars, auxVars>>
    /\ IF getProfile(id) = None
       THEN /\ Respond("PATCH /profiles/:id", id, 404, Some("Profile not found"))
            /\ UNCHANGED patchReq
       ELSE /\ patchReq' = Some([id |-> id, body |-> body])
            /\ UNCHANGED res

\* PATCH /profiles/:id from its await of updateProfile to the response.
PatchProfileFinish ==
    /\ patchReq # None
    /\ storeUpdateProfile(patchReq[1].id, patchUpdates(patchReq[1].body))
    /\ Respond("PATCH /profiles/:id", patchReq[1].id, 200, last'.ret)
    /\ trace' = <<Call("PATCH /profiles/:id", <<patchReq[1].id, patchReq[1].body>>),
                  Call("getProfile", <<patchReq[1].id>>),
                  Call("updateProfile", <<patchReq[1].id, patchUpdates(patchReq[1].body)>>)>>
    /\ patchReq' = None
    /\ UNCHANGED <<steps, cliReq, uploadsDir, cliVars, auxVars>>

\* DELETE /profiles/:id
DeleteProfileRequest(id) ==
    /\ MaySpend
    /\ Spend
    /\ storeDeleteProfile(id)
    /\ trace' = <<Call("DELETE /profiles/:id", <<id>>), Call("deleteProfile", <<id>>)>>
    /\ IF last'.ret
       THEN Respond("DELETE /profiles/:id", id, 204, None)
       ELSE Respond("DELETE /profiles/:id", id, 404, Some("Profile not found"))
    /\ UNCHANGED <<patchReq, cliReq, uploadsDir, cliVars, auxVars>>

\* The bodies of POST /connections requests.
ConnectionBodies ==
    {[name |-> "Local", url |-> "http://localhost:6060"],
     [name |-> "Local", url |-> "http://localhost:6060", isActive |-> "true"],
     [name |-> "Local", url |-> "null"],
     [url |-> "http://localhost:6060", isActive |-> "'yes'"],
     <<>>}

\* POST /connections
PostConnection(body) ==
    /\ MaySpend
    /\ connectionCurrentId <= MaxConnectionId
    /\ Spend
    /\ UNCHANGED <<patchReq, cliReq, uploadsDir, cliVars, auxVars>>
    /\ LET connectionData == parseInsertConnection(body)
       IN IF connectionData = None
          THEN /\ Respond("POST /connections", 0, catchStatus(TRUE),
                          Some([message |-> "Invalid connection data",
                                errors |-> fromZodError(insertConnectionIssues(body))]))
               /\ trace' = <<Call("POST /connections", <<body>>)>>
               /\ UNCHANGED storeVars
          ELSE /\ storeCreateConnection(connectionData[1])
               /\ trace' = <<Call("POST /connections", <<body>>),
                             Call("createConnection", <<connectionData[1]>>)>>
               /\ Respond("POST /connections", last'.id, 201, last'.ret)

\* GET /connections
GetConnectionsResponse == [route |-> "GET /connections", id |-> 0, status |-> 200,
                           body |-> Some(getConnections)]

\* The requests of the client's connectionApi that the router has no route for:
\* it registers GET /connections, POST /connections and GET /connections/:id
\* only, so the request falls through to the application's 404.
UnroutedRequests == {"PATCH /connections/:id", "DELETE /connections/:id"}

\* What the client's updateConnection sends.
ConnectionPatchBodies == {[name |-> "Renamed"]}

Unrouted(route, id, body) ==
    /\ MaySpend
    /\ route \in UnroutedRequests
    /\ Spend
    /\ Respond(route, id, 404, None)
    /\ trace' = <<Call(route, <<id, body>>)>>
    /\ UNCHANGED <<storeVars, patchReq, cliReq, uploadsDir, cliVars, auxVars>>

(***************************************************************************)
(* PprofCli. A command is a sequence of pieces: a piece is a word without  *)
(* white space, a space or a tab; an argument is a sequence of characters. *)
(***************************************************************************)
CommandPieces == {"go", "pprof", "go-torch", "rm", " ", "\t"}

WhiteSpace == {" ", "\t"}

Commands == UNION {[1 .. n -> CommandPieces] : n \in 0 .. MaxCommandLen}

\* The characters of the class in sanitizeArgument; "dquote" is the double quote
\* and "backtick" the backtick.
ShellCharacters == {";", "&", "|", "dquote", "'", "backtick", "$", "(", ")", "{", "}", "[", "]", "<", ">"}

\* The args a caller passes: nothing, an array of strings, or no array at all.
ArgsValues ==
    {[kind |-> "undefined", items |-> <<>>],
     [kind |-> "array", items |-> <<>>],
     [kind |-> "array", items |-> << <<"-", "h">>, <<"a", ";", "$">> >>],
     [kind |-> "array",
      items |-> << <<"x", ";", "&", "|", "dquote", "'", "backtick", "$", "(", ")",
                     "{", "}", "[", "]", "<", ">", "y">>, <<"[", "[", "]", "]">> >>],
     [kind |-> "string", items |-> <<>>]}

\* The characters of the urls and paths handed to fetchRemoteProfile and
\* generateFlamegraph, and the urls and paths themselves.
ArgChars == {"a", "b", ";", "$", "]"}

ArgStrings == UNION {[1 .. n -> ArgChars] : n \in 0 .. MaxArgLen}

RECURSIVE FirstSplit(_)
\* command.split(' ')[0]: the pieces before the first space.
FirstSplit(command) ==
    IF command = <<>> \/ Head(command) = " " THEN <<>>
    ELSE <<Head(command)>> \o FirstSplit(Tail(command))

RECURSIVE TrimStart(_)
TrimStart(str) ==
    IF str # <<>> /\ Head(str) \in WhiteSpace THEN TrimStart(Tail(str)) ELSE str

RECURSIVE TrimEnd(_)
TrimEnd(str) ==
    IF str # <<>> /\ str[Len(str)] \in WhiteSpace
    THEN TrimEnd(SubSeq(str, 1, Len(str) - 1))
    ELSE str

\* String.prototype.trim
Trim(str) == TrimEnd(TrimStart(str))

allowedCommands == {<<"go">>, <<"pprof">>, <<"go-torch">>}

\* sanitizeCommand without the allow-list check.
sanitizeCommand_noCheck(command) == Some(Trim(FirstSplit(command)))

\* sanitizeCommand: Some(baseCommand), or None when it throws.
sanitizeCommand(command) ==
    LET baseCommand == Trim(FirstSplit(command))
    IN IF baseCommand \notin allowedCommands THEN None ELSE Some(baseCommand)

\* The message of the Error sanitizeCommand throws.
NotAllowedMessage(command) == <<"Command not allowed: ">> \o Trim(FirstSplit(command))

\* sanitizeArgument with a pattern that lacks the g flag: the first shell
\* character alone is removed.
sanitizeArgument_firstOnly(arg) ==
    LET hits == {i \in DOMAIN arg : arg[i] \in ShellCharacters}
    IN IF hits = {} THEN arg
       ELSE LET first == CHOOSE i \in hits : \A j \in hits : i <= j
            IN SubSeq(arg, 1, first - 1) \o SubSeq(arg, first + 1, Len(arg))

\* sanitizeArgument: the shell characters removed.
sanitizeArgument(arg) == SelectSeq(arg, LAMBDA c : c \notin ShellCharacters)

Failed(message) == [output |-> <<>>, exitCode |-> 1, error |-> Some(message)]

\* runCommand up to the point where it waits for the child's events.
runCommand(command, argsValue) ==
    LET args == IF argsValue.kind = "undefined"
                THEN [kind |-> "array", items |-> <<>>]
                ELSE argsValue
        sanitizedCommand == sanitizeCommand(command)
    IN /\ cliCall' = Some([command |-> command, args |-> argsValue])
       /\ IF sanitizedCommand = None
          THEN /\ cliResult' = Some(Failed(NotAllowedMessage(command)))
               /\ spawned' = None
               /\ child' = None
          ELSE IF args.kind # "array"
          THEN /\ cliResult' = Some(Failed(<<"args.map is not a function">>))
               /\ spawned' = None
               /\ child' = None
          ELSE LET sanitizedArgs ==
                       [i \in DOMAIN args.items |-> sanitizeArgument(args.items[i])]
                   childProcess == [file |-> sanitizedCommand[1], args |-> sanitizedArgs]
               IN /\ spawned' = Some(childProcess)
                  /\ child' = Some([chunks |-> <<>>, errorChunks |-> <<>>, events |-> <<>>])
                  /\ cliResult' = None

\* A call of runCommand from outside. PprofCli has no fields: a call sees
\* nothing of the calls before it, so a behaviour holds one call.
RunCommand(command, argsValue) ==
    /\ cliEntry = None
    /\ cliEntry' = Some([method |-> "runCommand", input |-> argsValue.items])
    /\ runCommand(command, argsValue)
    /\ UNCHANGED <<storeVars, steps, restVars, auxVars>>

DefaultDuration == 30

\* The durations a caller passes to fetchRemoteProfile: none, or a number.
Durations == {None, Some(5)}

RECURSIVE NumberToString(_)
\* Number.prototype.toString of a natural number: its decimal digits.
NumberToString(n) ==
    LET digit == <<"0", "1", "2", "3", "4", "5", "6", "7", "8", "9">>[(n % 10) + 1]
    IN IF n < 10 THEN <<digit>> ELSE NumberToString(n \div 10) \o <<digit>>

\* fetchRemoteProfile: go tool pprof -seconds <duration> <url>
FetchRemoteProfile(url, durationArg) ==
    LET duration == IF durationArg = None THEN DefaultDuration ELSE durationArg[1]
        sanitizedUrl == sanitizeArgument(url)
    IN /\ cliEntry = None
       /\ cliEntry' = Some([method |-> "fetchRemoteProfile", input |-> <<url>>])
       /\ runCommand(<<"go">>,
                     [kind |-> "array",
                      items |-> << <<"t", "o", "o", "l">>, <<"p", "p", "r", "o", "f">>,
                                   <<"-", "s", "e", "c", "o", "n", "d", "s">>,
                                   NumberToString(duration), sanitizedUrl >>])
       /\ UNCHANGED <<storeVars, steps, restVars, auxVars>>

GraphvizMissing ==
    [output |-> <<"Graphviz not installed. Cannot generate flamegraph.">>,
     exitCode |-> 1,
     error |-> Some(<<"Graphviz not installed. Cannot generate flamegraph.">>)]

\* generateFlamegraph: go tool pprof -svg <path>, when `which dot` finds dot.
GenerateFlamegraph(profilePath, dotInstalled) ==
    /\ cliEntry = None
    /\ cliEntry' = Some([method |-> "generateFlamegraph", input |-> <<profilePath>>])
    /\ IF ~dotInstalled
       THEN /\ cliResult' = Some(GraphvizMissing)
            /\ UNCHANGED <<cliCall, spawned, child>>
       ELSE runCommand(<<"go">>,
                       [kind |-> "array",
                        items |-> << <<"t", "o", "o", "l">>, <<"p", "p", "r", "o", "f">>,
                                     <<"-", "s", "v", "g">>,
                                     sanitizeArgument(profilePath) >>])
    /\ UNCHANGED <<storeVars, steps, restVars, auxVars>>

RECURSIVE Concat(_)
\* Buffer.concat
Concat(chunks) == IF chunks = <<>> THEN <<>> ELSE Head(chunks) \o Concat(Tail(chunks))

StdoutChunks == {<<>>, << <<"p">> >>, << <<"p">>, <<"q">> >>}
StderrChunks == {<<>>, << <<"e">> >>}
\* The exit code null of a child that a signal ended.
NullExit == -1

ExitCodes == {0, 1, NullExit}

\* What the 'close' handler resolves the promise with.
closeResult(code, chunks, errorChunks) ==
    LET output == Concat(chunks)
        errorOutput == Concat(errorChunks)
    IN [output |-> output, exitCode |-> code,
        error |-> IF Len(errorOutput) > 0 THEN Some(errorOutput) ELSE None]

\* What the 'error' handler resolves the promise with.
errorResult == Failed(<<"spawn ENOENT">>)

\* A resolve that settles the promise anew.
resolve_lastWins(result) == cliResult' = Some(result)

\* resolve(result): the promise settles with the first result it is given.
resolve(result) == cliResult' = IF cliResult = None THEN Some(result) ELSE cliResult

\* A 'data' event of the child's stdout: the chunk is pushed.
ChildStdout(chunk) ==
    /\ child # None
    /\ child[1].events = <<>>
    /\ Append(child[1].chunks, chunk) \in StdoutChunks
    /\ child' = Some([child[1] EXCEPT !.chunks = Append(@, chunk)])
    /\ UNCHANGED <<storeVars, steps, restVars, cliEntry, cliCall, spawned, cliResult, auxVars>>

\* A 'data' event of the child's stderr.
ChildStderr(chunk) ==
    /\ child # None
    /\ child[1].events = <<>>
    /\ Append(child[1].errorChunks, chunk) \in StderrChunks
    /\ child' = Some([child[1] EXCEPT !.errorChunks = Append(@, chunk)])
    /\ UNCHANGED <<storeVars, steps, restVars, cliEntry, cliCall, spawned, cliResult, auxVars>>

\* The child's 'close' event, its last one.
ChildClose(code) ==
    /\ child # None
    /\ \A i \in DOMAIN child[1].events : child[1].events[i].event # "close"
    /\ resolve(closeResult(code, child[1].chunks, child[1].errorChunks))
    /\ child' = Some([child[1] EXCEPT !.events = Append(@, [event |-> "close", code |-> code])])
    /\ UNCHANGED <<storeVars, steps, restVars, cliEntry, cliCall, spawned, auxVars>>

\* The child's 'error' event: the binary could not be started. A 'close' may
\* follow it.
ChildError ==
    /\ child # None
    /\ child[1].events = <<>>
    /\ resolve(errorResult)
    /\ child' = Some([child[1] EXCEPT !.events = Append(@, [event |-> "error", code |-> 1])])
    /\ UNCHANGED <<storeVars, steps, restVars, cliEntry, cliCall, spawned, auxVars>>

CliNext ==
    \/ \E c \in Commands, a \in ArgsValues : RunCommand(c, a)
    \/ \E url \in ArgStrings, d \in Durations : FetchRemoteProfile(url, d)
    \/ \E path \in ArgStrings, dot \in BOOLEAN : GenerateFlamegraph(path, dot)
    \/ \E chunk \in UNION {{chunks[i] : i \in DOMAIN chunks} : chunks \in StdoutChunks} : ChildStdout(chunk)
    \/ \E chunk \in UNION {{chunks[i] : i \in DOMAIN chunks} : chunks \in StderrChunks} : ChildStderr(chunk)
    \/ \E code \in ExitCodes : ChildClose(code)
    \/ ChildError

CliSpec == Init /\ [][CliNext]_vars

(***************************************************************************)
(* registerRoutes: the handlers that parse a query or call the services.   *)
(***************************************************************************)
\* The characters of a limit query parameter, and the parameters: None is a
\* request without the parameter. There is no x among the characters, so the
\* radix prefix 0x of parseInt is not modelled.
QueryChars == {"-", "0", "2", "a"}

LimitQueries ==
    {None} \cup {Some(q) : q \in UNION {[1 .. n -> QueryChars] : n \in 0 .. MaxQueryLen}}

QueryDefaultLimit == 10

DigitChars == {"0", "1", "2", "3", "4", "5", "6", "7", "8", "9"}

DigitValue(c) == CHOOSE n \in 0 .. 9 : NumberToString(n) = <<c>>

RECURSIVE LeadingDigits(_)
LeadingDigits(str) ==
    IF str = <<>> \/ Head(str) \notin DigitChars THEN <<>>
    ELSE <<Head(str)>> \o LeadingDigits(Tail(str))

RECURSIVE DecimalValue(_)
DecimalValue(digits) ==
    IF digits = <<>> THEN 0
    ELSE DecimalValue(SubSeq(digits, 1, Len(digits) - 1)) * 10
            + DigitValue(digits[Len(digits)])

\* parseInt reading no sign: a leading minus is no part of a number.
parseInt_noSign(str) ==
    LET digits == LeadingDigits(TrimStart(str))
    IN IF digits = <<>> THEN None ELSE Some(DecimalValue(digits))

\* parseInt(str): white space, a sign, then the digits up to the first other
\* character; None is NaN.
parseInt(str) ==
    LET trimmed == TrimStart(str)
        signed == trimmed # <<>> /\ Head(trimmed) \in {"-", "+"}
        digits == LeadingDigits(IF signed THEN Tail(trimmed) ELSE trimmed)
    IN IF digits = <<>> THEN None
       ELSE IF signed /\ Head(trimmed) = "-" THEN Some(0 - DecimalValue(digits))
       ELSE Some(DecimalValue(digits))

\* GET /profiles/recent. An empty parameter is falsy, and slice(0, NaN) is
\* slice(0, 0).
GetRecentProfilesRequest(query) ==
    LET limit == IF query # None /\ query[1] # <<>>
                 THEN parseInt(query[1])
                 ELSE Some(QueryDefaultLimit)
        recent == IF limit = None THEN getRecentProfiles(Some(0))
                  ELSE getRecentProfiles(limit)
    IN /\ MaySpend
       /\ Spend
       /\ trace' = <<Call("GET /profiles/recent", <<query>>),
                     Call("getRecentProfiles", <<limit>>)>>
       /\ Respond("GET /profiles/recent", 0, 200, Some(recent))
       /\ UNCHANGED <<storeVars, patchReq, cliReq, uploadsDir, cliVars, auxVars>>

\* Buffer.toString('base64') of the buffers of the model.
Base64Buffer(buffer) ==
    CASE buffer = <<>> -> ""
      [] buffer = <<"p">> -> "cA=="
      [] buffer = <<"p", "q">> -> "cHE="

\* The urls of POST /fetch-profile requests that new URL() and fetch accept.
AbsoluteUrls == {"http://localhost:6060", "http://example.com/debug/pprof/heap"}

\* new URL(url).hostname
Hostname(url) ==
    CASE url = "http://localhost:6060" -> "localhost"
      [] url = "http://example.com/debug/pprof/heap" -> "example.com"

\* The bodies of POST /fetch-profile requests.
FetchBodies ==
    {<<>>,
     [url |-> "''"],
     [url |-> "example.com"],
     [url |-> "http://example.com/debug/pprof/heap", profileType |-> "heap"],
     [url |-> "http://localhost:6060", profileType |-> "true"]}

\* What the fetch of the profile ends with: no answer or a status that is not
\* ok (None), or the bytes of the answer.
FetchOutcomes == {None, Some(<<"p", "q">>)}

\* POST /fetch-profile. fetchFromUrl throws when the fetch fails or parseData
\* throws; a url that is not absolute makes the fetch fail.
FetchProfile(body, fetched, parsed, t) ==
    LET url == Field(body, "url")
        profileType == Field(body, "profileType")
        request == Call("POST /fetch-profile", <<body>>)
    IN /\ MaySpend
       /\ profileCurrentId <= MaxProfileId
       /\ Spend
       /\ UNCHANGED <<patchReq, cliReq, uploadsDir, cliVars, auxVars>>
       /\ IF ~Truthy(url)
          THEN /\ Respond("POST /fetch-profile", 0, 400, Some("URL is required"))
               /\ trace' = <<request>>
               /\ UNCHANGED storeVars
          ELSE LET begun == <<request, Call("fetchFromUrl", <<url, profileType>>)>>
               IN IF url \notin AbsoluteUrls \/ fetched = None \/ parsed = None
                  THEN /\ Respond("POST /fetch-profile", 0, catchStatus(FALSE),
                                  Some("Failed to fetch and parse profile from URL"))
                       /\ trace' = begun
                       /\ UNCHANGED storeVars
                  ELSE LET profileData ==
                               [filename |-> "remote_" \o ToString(now) \o ".pprof",
                                originalFilename |-> "remote_" \o Hostname(url) \o ".pprof",
                                profileType |-> OrElse(profileType, "cpu"),
                                size |-> Len(fetched[1]),
                                description |-> "Fetched from " \o url,
                                metadata |-> parsed[1],
                                data |-> Base64Buffer(fetched[1]),
                                isSaved |-> "false"]
                           validatedData == parseInsertProfile(profileData)
                       IN IF validatedData = None
                          THEN /\ Respond("POST /fetch-profile", 0, catchStatus(TRUE),
                                          Some("Invalid profile data"))
                               /\ trace' = begun
                               /\ UNCHANGED storeVars
                          ELSE /\ storeCreateProfile(validatedData[1], t)
                               /\ trace' = Append(begun,
                                                  Call("createProfile", <<validatedData[1]>>))
                               /\ Respond("POST /fetch-profile", last'.id, 201, last'.ret)

\* The bodies of POST /cli-profile requests: command is a string, args an
\* array of strings or something else, profileType a string or something else.
CliBodies ==
    {<<>>,
     [command |-> <<>>],
     [command |-> <<"go">>,
      args |-> [kind |-> "array", items |-> << <<"t", "o", "o", "l">>, <<"a", ";">> >>]],
     [command |-> <<"rm", " ", "go">>, profileType |-> "heap"],
     [command |-> <<"pprof">>, args |-> [kind |-> "string", items |-> <<>>]],
     [command |-> <<"go">>, profileType |-> "true"]}

\* req.body.args
BodyArgs(body) ==
    IF "args" \in DOMAIN body THEN body.args ELSE [kind |-> "undefined", items |-> <<>>]

\* The test of the result taking a set error alone for a failure.
commandFailed_errorOnly(result) == result.error # None /\ result.error[1] # <<>>

\* exitCode !== 0 || error
commandFailed(result) ==
    result.exitCode # 0 \/ (result.error # None /\ result.error[1] # <<>>)

\* POST /cli-profile up to its await of runCommand.
CliProfileBegin(body) ==
    LET request == Call("POST /cli-profile", <<body>>)
    IN /\ MaySpend
       /\ cliReq = None
       /\ InFlight < MaxInFlight
       /\ Spend
       /\ UNCHANGED <<storeVars, patchReq, uploadsDir, auxVars>>
       /\ IF "command" \notin DOMAIN body \/ body.command = <<>>
          THEN /\ Respond("POST /cli-profile", 0, 400, Some("Command is required"))
               /\ trace' = <<request>>
               /\ UNCHANGED <<cliReq, cliVars>>
          ELSE /\ cliReq' = Some(body)
               /\ cliEntry' = Some([method |-> "runCommand", input |-> BodyArgs(body).items])
               /\ runCommand(body.command, BodyArgs(body))
               /\ trace' = <<request, Call("runCommand", <<body.command, BodyArgs(body)>>)>>
               /\ UNCHANGED res

\* What the child of a request can end with.
ChildEvents ==
    {closeResult(code, << <<"p">>, <<"q">> >>, err) :
        code \in ExitCodes, err \in StderrChunks}
        \cup {errorResult}

\* POST /cli-profile from the result of runCommand to the response: the
\* promise is settled already when runCommand failed before the spawn, and
\* settles with the child's event otherwise, and the handler goes on in the
\* same turn. parseData returns the metadata or throws. The promise and its
\* child are gone then.
CliProfileFinish(event, parsed, t) ==
    LET body == cliReq[1]
        result == IF cliResult # None THEN cliResult[1] ELSE event
        begun == <<Call("POST /cli-profile", <<body>>),
                   Call("runCommand", <<body.command, BodyArgs(body)>>),
                   Call("runCommand resolved", <<result>>)>>
    IN /\ cliReq # None
       /\ cliResult # None => event = errorResult
       /\ cliReq' = None
       /\ cliEntry' = None /\ cliCall' = None /\ spawned' = None
       /\ child' = None /\ cliResult' = None
       /\ UNCHANGED <<steps, patchReq, uploadsDir, auxVars>>
       /\ IF commandFailed(result)
          THEN /\ Respond("POST /cli-profile", 0, 400,
                          Some([message |-> "Command execution failed",
                                error |-> result.error, exitCode |-> result.exitCode]))
               /\ trace' = begun
               /\ UNCHANGED storeVars
          ELSE LET parsing == Append(begun, Call("parseData", <<result.output>>))
               IN IF parsed = None
                  THEN /\ Respond("POST /cli-profile", 0, catchStatus(FALSE),
                                  Some("Failed to generate and parse profile from CLI"))
                       /\ trace' = parsing
                       /\ UNCHANGED storeVars
                  ELSE LET profileData ==
                               [filename |-> "cli_" \o ToString(now) \o ".pprof",
                                originalFilename |-> "cli_output.pprof",
                                profileType |-> OrElse(Field(body, "profileType"), "cpu"),
                                size |-> Len(result.output),
                                description |-> "Generated from CLI",
                                metadata |-> parsed[1],
                                data |-> Base64Buffer(result.output),
                                isSaved |-> "false"]
                           validatedData == parseInsertProfile(profileData)
                       IN IF validatedData = None
                          THEN /\ Respond("POST /cli-profile", 0, catchStatus(TRUE),
                                          Some("Invalid profile data"))
                               /\ trace' = parsing
                               /\ UNCHANGED storeVars
                          ELSE /\ profileCurrentId <= MaxProfileId
                               /\ storeCreateProfile(validatedData[1], t)
                               /\ trace' = Append(parsing,
                                                  Call("createProfile", <<validatedData[1]>>))
                               /\ Respond("POST /cli-profile", last'.id, 201, last'.ret)

RestNext ==
    \/ \E f \in UploadFiles, b \in UploadBodies, m \in ParseOutcomes, t \in ClockReadings :
          UploadProfile(f, b, m, t)
    \/ \E id \in ProfileIdArgs : GetProfileRequest(id)
    \/ \E q \in LimitQueries : GetRecentProfilesRequest(q)
    \/ \E id \in ProfileIdArgs, b \in PatchBodies : PatchProfileBegin(id, b)
    \/ PatchProfileFinish
    \/ \E id \in ProfileIdArgs : DeleteProfileRequest(id)
    \/ \E b \in ConnectionBodies : PostConnection(b)
    \/ \E r \in UnroutedRequests, id \in ConnectionIdArgs, b \in ConnectionPatchBodies :
          Unrouted(r, id, b)
    \/ \E b \in FetchBodies, f \in FetchOutcomes, m \in ParseOutcomes, t \in ClockReadings :
          FetchProfile(b, f, m, t)
    \/ \E b \in CliBodies : CliProfileBegin(b)
    \/ \E e \in ChildEvents, m \in ParseOutcomes, t \in ClockReadings :
          CliProfileFinish(e, m, t)

RestSpec == Init /\ [][RestNext]_vars

(***************************************************************************)
(* PprofParser.parseData: calls that overlap in time. A call is at one of  *)
(* its awaits: of writeFile ("writing"), of extractMetadata ("extracting") *)
(* or of unlink ("unlinking"). A path is written as the clock reading in   *)
(* its name, temp_pprof_<reading>.pprof.                                   *)
(***************************************************************************)
Parsers == 1 .. MaxParsers

\* The buffers handed to parseData, and the contents of the files handed to
\* parseFile.
RawInputs == {<<"p">>, <<"p", "q">>}

\* What the external tool does: whether `which go` finds go, whether
\* go tool pprof -top succeeds, and whether go tool pprof -raw succeeds.
ToolOutcomes == [goInstalled : BOOLEAN, topOk : BOOLEAN, rawOk : BOOLEAN]

\* What is parsed out of the -top report of a file with this content.
MetadataOf(content) == [topFunctions |-> content]

\* What is parsed out of the -raw report of a file with this content.
RawMetadataOf(content) == [sampleCount |-> Len(content)]

\* extractMetadata in which a failing -raw invocation is not caught apart.
extractMetadata_rawFatal(file, tool) ==
    IF ~tool.goInstalled THEN [error |-> "Go not installed. Basic parsing only."]
    ELSE IF file = None \/ ~tool.topOk \/ ~tool.rawOk
    THEN [error |-> "Metadata extraction failed. Basic parsing only."]
    ELSE Spread(MetadataOf(file[1]), RawMetadataOf(file[1]))

\* extractMetadata of a file, None when there is no file at the path: it
\* never throws; a failing `which go` and a failing -top invocation yield the
\* two fallbacks, a failing -raw invocation is ignored.
extractMetadata(file, tool) ==
    IF ~tool.goInstalled THEN [error |-> "Go not installed. Basic parsing only."]
    ELSE IF file = None \/ ~tool.topOk
    THEN [error |-> "Metadata extraction failed. Basic parsing only."]
    ELSE IF ~tool.rawOk THEN MetadataOf(file[1])
    ELSE Spread(MetadataOf(file[1]), RawMetadataOf(file[1]))

\* parseData from its call to the await of writeFile: the path is taken from
\* Date.now().
ParseBegin(p, rawData, t) ==
    /\ parsers[p].pc = "idle"
    /\ now' = t
    /\ parsers' = [parsers EXCEPT ![p] = [pc |-> "writing", kind |-> "parseData",
                                          rawData |-> rawData, tempFilePath |-> t]]
    /\ UNCHANGED <<profiles, connections, profileCurrentId, connectionCurrentId, last,
                   created, createdConns, updated, deleted>>
    /\ UNCHANGED <<steps, restVars, cliVars, tempDir, functionIds, uiVars>>

\* writeFile has written the temp file.
ParseWritten(p) ==
    /\ parsers[p].pc = "writing"
    /\ tempDir' = (parsers[p].tempFilePath :> parsers[p].rawData) @@ tempDir
    /\ parsers' = [parsers EXCEPT ![p].pc = "extracting"]
    /\ UNCHANGED <<storeVars, steps, restVars, cliVars, functionIds, uiVars>>

\* extractMetadata has read the temp file with the external tool.
ParseExtracted(p, tool) ==
    /\ parsers[p].pc = "extracting"
    /\ LET path == parsers[p].tempFilePath
           file == IF path \in DOMAIN tempDir THEN Some(tempDir[path]) ELSE None
       IN parsers' = [parsers EXCEPT ![p] =
                         [pc |-> "unlinking", kind |-> "parseData",
                          rawData |-> parsers[p].rawData,
                          tempFilePath |-> path,
                          tool |-> tool,
                          metadata |-> extractMetadata(file, tool)]]
    /\ UNCHANGED <<storeVars, steps, restVars, cliVars, tempDir, functionIds, uiVars>>

\* unlink has removed the temp file, or has failed for there is no such file;
\* parseData returns or throws.
ParseUnlinked(p) ==
    /\ parsers[p].pc = "unlinking"
    /\ IF parsers[p].tempFilePath \in DOMAIN tempDir
       THEN /\ tempDir' = [f \in DOMAIN tempDir \ {parsers[p].tempFilePath} |-> tempDir[f]]
            /\ parsers' = [parsers EXCEPT ![p] =
                              [pc |-> "done", kind |-> "parseData",
                               rawData |-> parsers[p].rawData,
                               tempFilePath |-> parsers[p].tempFilePath,
                               tool |-> parsers[p].tool,
                               thrown |-> None,
                               returned |-> Some([metadata |-> parsers[p].metadata,
                                                  data |-> Base64Buffer(parsers[p].rawData)])]]
       ELSE /\ tempDir' = tempDir
            /\ parsers' = [parsers EXCEPT ![p] =
                              [pc |-> "done", kind |-> "parseData",
                               rawData |-> parsers[p].rawData,
                               tempFilePath |-> parsers[p].tempFilePath,
                               tool |-> parsers[p].tool,
                               thrown |-> Some("Failed to parse pprof data: ENOENT"),
                               returned |-> None]]
    /\ UNCHANGED <<storeVars, steps, restVars, cliVars, functionIds, uiVars>>

\* The file at the path handed to parseFile: None when there is none.
FilesAtPath == {None} \cup {Some(content) : content \in RawInputs}

\* parseFile from its call to the await of readFile: it throws at once when
\* existsSync finds no file.
ParseFileBegin(p, file) ==
    /\ parsers[p].pc = "idle"
    /\ parsers' = [parsers EXCEPT ![p] =
                      IF file = None
                      THEN [pc |-> "done", kind |-> "parseFile", fileRead |-> FALSE,
                            thrown |-> Some("Failed to parse pprof file: File not found"),
                            returned |-> None]
                      ELSE [pc |-> "reading", kind |-> "parseFile", file |-> file[1]]]
    /\ UNCHANGED <<storeVars, steps, restVars, cliVars, tempDir, functionIds, uiVars>>

\* readFile has read the file, or has failed.
ParseFileRead(p, readable) ==
    /\ parsers[p].pc = "reading"
    /\ parsers' = [parsers EXCEPT ![p] =
                      IF readable
                      THEN [pc |-> "extractingFile", kind |-> "parseFile",
                            file |-> parsers[p].file,
                            data |-> Base64Buffer(parsers[p].file)]
                      ELSE [pc |-> "done", kind |-> "parseFile", fileRead |-> FALSE,
                            thrown |-> Some("Failed to parse pprof file: EACCES"),
                            returned |-> None]]
    /\ UNCHANGED <<storeVars, steps, restVars, cliVars, tempDir, functionIds, uiVars>>

\* extractMetadata has read the file with the external tool; parseFile returns.
ParseFileExtracted(p, tool) ==
    /\ parsers[p].pc = "extractingFile"
    /\ parsers' = [parsers EXCEPT ![p] =
                      [pc |-> "done", kind |-> "parseFile", fileRead |-> TRUE,
                       file |-> parsers[p].file,
                       tool |-> tool,
                       thrown |-> None,
                       returned |-> Some([metadata |-> extractMetadata(Some(parsers[p].file), tool),
                                          data |-> parsers[p].data])]]
    /\ UNCHANGED <<storeVars, steps, restVars, cliVars, tempDir, functionIds, uiVars>>

ParseNext ==
    \/ \E p \in Parsers, rawData \in RawInputs, t \in ClockReadings : ParseBegin(p, rawData, t)
    \/ \E p \in Parsers : ParseWritten(p)
    \/ \E p \in Parsers, tool \in ToolOutcomes : ParseExtracted(p, tool)
    \/ \E p \in Parsers : ParseUnlinked(p)
    \/ \E p \in Parsers, file \in FilesAtPath : ParseFileBegin(p, file)
    \/ \E p \in Parsers, readable \in BOOLEAN : ParseFileRead(p, readable)
    \/ \E p \in Parsers, tool \in ToolOutcomes : ParseFileExtracted(p, tool)

ParseSpec == Init /\ [][ParseNext]_vars

(***************************************************************************)
(* The files the server writes and removes: the uploads of multer and the  *)
(* temp files of parseData.                                                *)
(***************************************************************************)
\* The uploads and the parseData calls, with the external tool at work: what
\* the tool reports has no part in which files exist.
CleanupNext ==
    \/ \E file \in UploadFiles, body \in UploadBodies, parsed \in ParseOutcomes,
          t \in ClockReadings : UploadProfile(file, body, parsed, t)
    \/ \E p \in Parsers, rawData \in RawInputs, t \in ClockReadings : ParseBegin(p, rawData, t)
    \/ \E p \in Parsers : ParseWritten(p)
    \/ \E p \in Parsers, tool \in {o \in ToolOutcomes : o.goInstalled /\ o.topOk /\ o.rawOk} :
          ParseExtracted(p, tool)
    \/ \E p \in Parsers : ParseUnlinked(p)

CleanupSpec == Init /\ [][CleanupNext]_vars

(***************************************************************************)
(* profileUtils.generateFunctionId. A function name is a sequence of       *)
(* characters; the hash is a 32-bit integer, kept as its two 16-bit halves *)
(* in two's complement.                                                    *)
(***************************************************************************)
NameChars == {"A", "B", "a"}

FunctionNames == UNION {[1 .. n -> NameChars] : n \in 0 .. MaxNameLen}

\* String.prototype.charCodeAt
charCodeAt(c) ==
    CASE c = "A" -> 65
      [] c = "B" -> 66
      [] c = "a" -> 97

HalfWord == 65536

\* ((hash << 5) - hash) + char, then hash & hash: 31 * hash + char in 32 bits.
HashStep(hash, char) ==
    LET low == hash.lo * 31 + char
    IN [lo |-> low % HalfWord, hi |-> (hash.hi * 31 + low \div HalfWord) % HalfWord]

RECURSIVE HashOf(_)
\* The loop over the characters of the name.
HashOf(functionName) ==
    IF functionName = <<>> THEN [lo |-> 0, hi |-> 0]
    ELSE HashStep(HashOf(SubSeq(functionName, 1, Len(functionName) - 1)),
                  charCodeAt(functionName[Len(functionName)]))

\* Math.abs of the 32-bit integer: the magnitude of a negative one.
Abs32(hash) ==
    IF hash.hi < HalfWord \div 2 THEN hash
    ELSE [lo |-> (HalfWord - hash.lo) % HalfWord,
          hi |-> (HalfWord - 1 - hash.hi + (IF hash.lo = 0 THEN 1 ELSE 0)) % HalfWord]

RECURSIVE Hex(_)
\* Number.prototype.toString(16) of a natural number.
Hex(n) ==
    LET digit == <<"0", "1", "2", "3", "4", "5", "6", "7", "8", "9",
                   "a", "b", "c", "d", "e", "f">>[(n % 16) + 1]
    IN IF n < 16 THEN <<digit>> ELSE Hex(n \div 16) \o <<digit>>

\* The four hexadecimal digits of a half below the highest one.
Hex4(n) ==
    LET digits == Hex(n)
    IN [i \in 1 .. 4 - Len(digits) |-> "0"] \o digits

generateFunctionId(functionName) ==
    LET hash == Abs32(HashOf(functionName))
    IN <<"fn_">> \o (IF hash.hi = 0 THEN Hex(hash.lo) ELSE Hex(hash.hi) \o Hex4(hash.lo))

\* The rows of TopFunctions get their ids, one function name after the other.
GenerateFunctionId(functionName) ==
    /\ functionName \notin DOMAIN functionIds
    /\ Cardinality(DOMAIN functionIds) < MaxFunctions
    /\ functionIds' = [n \in DOMAIN functionIds \cup {functionName} |->
                          IF n = functionName THEN generateFunctionId(functionName)
                          ELSE functionIds[n]]
    /\ UNCHANGED <<storeVars, steps, restVars, cliVars, parseVars, uiVars>>

UtilsNext == \E n \in FunctionNames : GenerateFunctionId(n)

UtilsSpec == Init /\ [][UtilsNext]_vars

(***************************************************************************)
(* The TopFunctions component. A PprofFunction is written with its         *)
(* functionName and its flatPercent; a number parsed by parseFloat is      *)
(* written in tenths.                                                      *)
(***************************************************************************)
\* The functions a profile's metadata can list.
PprofFunctions ==
    {[functionName |-> <<"A", "a">>, flatPercent |-> <<"9", "%">>],
     [functionName |-> <<"B", "B">>, flatPercent |-> <<"1", "0", "%">>],
     [functionName |-> <<"B">>, flatPercent |-> <<"1", "0", "%">>],
     [functionName |-> <<"a">>, flatPercent |-> <<"1", "0", ".", "5", "%">>]}

\* The metadata of the profile prop: one without topFunctions, or a list of
\* functions of different names.
TopMetadata ==
    {[error |-> "Go not installed. Basic parsing only."]} \cup
    {[topFunctions |-> fns] :
        fns \in {f \in UNION {[1 .. n -> PprofFunctions] : n \in 0 .. MaxRows} :
                    \A i, j \in DOMAIN f : i # j => f[i] # f[j]}}

\* The limit prop: None is a prop left out.
LimitProps == {None} \cup {Some(l) : l \in 0 .. MaxLimit}

\* parseFloat of a string without sign or exponent: the digits, and a point
\* with the digit after it; None is NaN.
parseFloat(str) ==
    LET whole == LeadingDigits(str)
        rest == SubSeq(str, Len(whole) + 1, Len(str))
        fraction == IF rest # <<>> /\ Head(rest) = "." THEN LeadingDigits(Tail(rest))
                    ELSE <<>>
    IN IF whole = <<>> /\ fraction = <<>> THEN None
       ELSE Some(DecimalValue(whole) * 10
                    + (IF fraction = <<>> THEN 0 ELSE DigitValue(fraction[1])))

\* The comparator of the sort: bPercent - aPercent, and NaN counts as 0.
compareFlat(a, b) ==
    LET aPercent == parseFloat(a.flatPercent)
        bPercent == parseFloat(b.flatPercent)
    IN IF aPercent = None \/ bPercent = None THEN 0 ELSE bPercent[1] - aPercent[1]

RECURSIVE InsertByFlat(_, _)
\* fn put behind the functions the comparator does not put behind it.
InsertByFlat(sorted, fn) ==
    IF sorted = <<>> THEN <<fn>>
    ELSE IF compareFlat(Head(sorted), fn) <= 0
    THEN <<Head(sorted)>> \o InsertByFlat(Tail(sorted), fn)
    ELSE <<fn>> \o sorted

RECURSIVE SortByFlat(_)
\* Array.prototype.sort with compareFlat: the sort is stable.
SortByFlat(fns) ==
    IF fns = <<>> THEN <<>>
    ELSE InsertByFlat(SortByFlat(SubSeq(fns, 1, Len(fns) - 1)), fns[Len(fns)])

\* The topFunctions memo: the functions the component displays.
topFunctions(metadata, limit) ==
    IF "topFunctions" \notin DOMAIN metadata THEN <<>>
    ELSE LET sorted == SortByFlat(metadata.topFunctions)
         IN IF limit # None /\ limit[1] # 0 THEN Slice0(sorted, limit[1]) ELSE sorted

\* The rows of the mounted component.
DisplayedFunctions ==
    IF topProps = None THEN <<>> ELSE topFunctions(topProps[1].metadata, topProps[1].limit)

\* The rows that show their details: those with isExpanded.
ExpandedRows ==
    {i \in DOMAIN DisplayedFunctions :
        topProps[1].detailed
        /\ expandedFunctionId = Some(generateFunctionId(DisplayedFunctions[i].functionName))}

\* The component is mounted: its state starts at null.
MountTopFunctions(metadata, limit, detailed) ==
    /\ topProps = None
    /\ topProps' = Some([metadata |-> metadata, limit |-> limit, detailed |-> detailed])
    /\ expandedFunctionId' = None
    /\ rowClicked' = None
    /\ UNCHANGED <<storeVars, steps, restVars, cliVars, parseVars, functionIds>>

\* A click on a row of the detailed table: toggleAccordion(fn).
ToggleAccordion(row) ==
    /\ topProps # None
    /\ topProps[1].detailed
    /\ row \in DOMAIN DisplayedFunctions
    /\ LET functionId == generateFunctionId(DisplayedFunctions[row].functionName)
       IN expandedFunctionId' =
              IF expandedFunctionId = Some(functionId) THEN None ELSE Some(functionId)
    /\ rowClicked' = Some([row |-> row, wasExpanded |-> row \in ExpandedRows])
    /\ UNCHANGED <<storeVars, steps, restVars, cliVars, parseVars, functionIds, topProps>>

TopNext ==
    \/ \E metadata \in TopMetadata, limit \in LimitProps, detailed \in BOOLEAN :
          MountTopFunctions(metadata, limit, detailed)
    \/ \E row \in 1 .. MaxRows : ToggleAccordion(row)

TopSpec == Init /\ [][TopNext]_vars

(***************************************************************************)
(* Properties of the store.                                                *)
(***************************************************************************)
\* The fields of the store proper, without the history kept beside it.
store == <<profiles, connections, profileCurrentId, connectionCurrentId>>

\* A step that is the call `op` on the store.
Called(op) == steps' # steps /\ last'.op = op

Elements(seq) == {seq[i] : i \in DOMAIN seq}

\* C1: the ids createProfile returns are strictly increasing: each is larger
\* than every id handed out before it (those of the sample profiles included),
\* whatever updates and deletes came in between; createConnection does the same
\* with a counter of its own, which createProfile does not move, and the other
\* way round.
C1_IdsStrictlyIncreasing ==
    [][/\ Called("createProfile") =>
            /\ \A i \in DOMAIN created : last'.id > i
            /\ last'.ret[1].id = last'.id
            /\ connectionCurrentId' = connectionCurrentId
       /\ Called("createConnection") =>
            /\ \A i \in DOMAIN createdConns : last'.id > i
            /\ last'.ret[1].id = last'.id
            /\ profileCurrentId' = profileCurrentId]_vars

\* A createProfile after a delete and an update.
C1_Witness ==
    /\ last.op = "createProfile"
    /\ deleted # {}
    /\ updated # {}
    /\ Cardinality(DOMAIN created) > Cardinality(DOMAIN profiles)

\* C2: the record createProfile(p) returned carries every field of p, an id and
\* an uploadedAt, and getProfile(id) returns that very record for as long as the
\* id is neither updated nor deleted.
C2_CreateThenGet ==
    \A id \in DOMAIN created :
        created[id].by = "createProfile" =>
            LET p == created[id].ins
                r == created[id].rec
            IN /\ \A k \in DOMAIN p : k \in DOMAIN r /\ r[k] = p[k]
               /\ "id" \in DOMAIN r /\ r.id = id
               /\ "uploadedAt" \in DOMAIN r /\ r.uploadedAt \in 0 .. MaxTime
               /\ id \notin updated \cup deleted => getProfile(id) = Some(r)

\* A created profile still untouched after later calls changed other records.
C2_Witness ==
    \E id \in DOMAIN created :
        /\ created[id].by = "createProfile"
        /\ created[id].ins.isSaved = "true"
        /\ id \notin updated \cup deleted
        /\ updated # {}
        /\ last.op # "createProfile"

\* C3: updateProfile and updateConnection on an id that is not stored return
\* undefined and leave maps and counters as they were.
C3_UpdateMissing ==
    [][/\ (Called("updateProfile") /\ last'.id \notin DOMAIN profiles) =>
            (last'.ret = None /\ UNCHANGED store)
       /\ (Called("updateConnection") /\ last'.id \notin DOMAIN connections) =>
            (last'.ret = None /\ UNCHANGED store)]_vars

\* An updateProfile on the id of a profile that was deleted before.
C3_Witness ==
    /\ last.op = "updateProfile"
    /\ last.ret = None
    /\ last.id \in deleted
    /\ DOMAIN profiles # {}

\* C4: deleteProfile on a stored id returns true and the id is gone; on an id
\* that is not stored (never stored, or deleted by the call before) it returns
\* false and leaves the store as it was.
C4_DeleteTwice ==
    [][Called("deleteProfile") =>
          /\ last'.id \in DOMAIN profiles =>
                (last'.ret = TRUE /\ last'.id \notin DOMAIN profiles')
          /\ last'.id \notin DOMAIN profiles =>
                (last'.ret = FALSE /\ UNCHANGED store)
          /\ (last.op = "deleteProfile" /\ last.id = last'.id) =>
                (last'.ret = FALSE /\ UNCHANGED store)]_vars

\* The second of two deletes of the same id.
C4_Witness ==
    /\ last.op = "deleteProfile"
    /\ last.ret = FALSE
    /\ last.id \in deleted
    /\ DOMAIN profiles # {}

\* C5: getSavedProfiles returns exactly the stored profiles whose isSaved is set.
C5_SavedOnly ==
    LET out == getSavedProfiles
        saved == {k \in DOMAIN profiles : Truthy(profiles[k].isSaved)}
    IN /\ \A i \in DOMAIN out : Truthy(out[i].isSaved)
       /\ Elements(out) = {profiles[k] : k \in saved}
       /\ Len(out) = Cardinality(saved)

\* A store holding a profile whose flag an update set and one whose flag is unset.
C5_Witness ==
    /\ \E k \in DOMAIN profiles \cap updated :
          Truthy(profiles[k].isSaved) /\ ~Truthy(created[k].rec.isSaved)
    /\ \E k \in DOMAIN profiles : ~Truthy(profiles[k].isSaved)

\* C6: getRecentProfiles is ordered by uploadedAt, newest first, also after
\* updateProfile changed uploadedAt values.
C6_RecentOrdered ==
    \A l \in LimitArgs :
        LET out == getRecentProfiles(l)
        IN \A i \in 1 .. Len(out) - 1 : out[i].uploadedAt >= out[i + 1].uploadedAt

\* An update made the profile with the smaller id the newer one of two.
C6_Witness ==
    \E i, j \in DOMAIN profiles :
        /\ i < j
        /\ i \in updated
        /\ profiles[i].uploadedAt > profiles[j].uploadedAt
        /\ created[i].rec.uploadedAt <= created[j].rec.uploadedAt

\* C7: getRecentProfiles(limit) returns at most limit profiles (none for a limit
\* below zero), and no profile left out is newer than one returned.
C7_RespectsLimit ==
    \A l \in LimitArgs \ {None} :
        LET out == getRecentProfiles(l)
        IN /\ Len(out) <= Max(l[1], 0)
           /\ \A k \in DOMAIN profiles :
                 profiles[k] \notin Elements(out) =>
                     \A i \in DOMAIN out : out[i].uploadedAt >= profiles[k].uploadedAt

(***************************************************************************)
(* Properties of the REST API.                                             *)
(***************************************************************************)
\* The fields of a profile a PATCH /profiles/:id must leave alone.
FrameFields == ProfileFields \ {"isSaved", "description"}

\* C8: whatever the bodies of the PATCH /profiles/:id requests, a stored
\* profile has the id, filename, originalFilename, profileType, size, metadata,
\* uploadedAt and data it was created with, and no field besides a profile's.
C8_PatchFrame ==
    \A id \in DOMAIN profiles :
        /\ DOMAIN profiles[id] = ProfileFields
        /\ \A k \in FrameFields : profiles[id][k] = created[id].rec[k]

\* A PATCH whose body named fields outside the two was answered with 200.
C8_Witness ==
    /\ res.route = "PATCH /profiles/:id"
    /\ res.status = 200
    /\ res.id \in DOMAIN profiles
    /\ profiles[res.id].isSaved = "'false'"

\* C9: a PATCH /connections/:id on a stored connection changes the stored
\* connection, and a DELETE /connections/:id on a stored connection removes it
\* from what GET /connections lists afterwards.
C9_ConnectionUpdateDelete ==
    [][/\ (steps' # steps /\ res'.route = "PATCH /connections/:id"
              /\ res'.id \in DOMAIN connections) =>
            connections'[res'.id] # connections[res'.id]
       /\ (steps' # steps /\ res'.route = "DELETE /connections/:id"
              /\ res'.id \in DOMAIN connections) =>
            \A i \in DOMAIN getConnections' : getConnections'[i].id # res'.id]_vars

(***************************************************************************)
(* Properties of PprofCli.                                                 *)
(***************************************************************************)
\* C10 as stated: a process is spawned only when the first space-separated
\* token of the command is go, pprof or go-torch, the binary is that token, and
\* every other command ends with exit code 1 and a not-allowed error.
C10_AllowListByToken ==
    cliCall # None =>
        LET token == FirstSplit(cliCall[1].command)
        IN /\ spawned # None => (token \in allowedCommands /\ spawned[1].file = token)
           /\ token \notin allowedCommands =>
                 /\ spawned = None
                 /\ cliResult # None
                 /\ cliResult[1].exitCode = 1
                 /\ cliResult[1].error # None
                 /\ Head(cliResult[1].error[1]) = "Command not allowed: "

\* C10, amended: a process is spawned only when the first space-separated
\* token, trimmed of surrounding white space, is go, pprof or go-torch, and the
\* binary is that trimmed token; every other command ends with exit code 1 and
\* the error that names the trimmed token as not allowed.
C10_AllowListByTrimmedToken ==
    cliCall # None =>
        LET token == Trim(FirstSplit(cliCall[1].command))
        IN /\ spawned # None => (token \in allowedCommands /\ spawned[1].file = token)
           /\ token \notin allowedCommands =>
                 /\ spawned = None
                 /\ cliResult # None
                 /\ cliResult[1].exitCode = 1
                 /\ cliResult[1].error = Some(<<"Command not allowed: ">> \o token)

\* A command whose first token carries white space around an allowed name was
\* spawned with arguments, and its child has ended.
C10_Witness ==
    /\ cliCall # None
    /\ spawned # None
    /\ Head(cliCall[1].command) = "\t"
    /\ Len(cliCall[1].command) = MaxCommandLen
    /\ spawned[1].args # <<>>
    /\ cliResult # None

\* The record `new` is `old` overwritten by the update `u`.
Overwritten(old, u, new) ==
    /\ DOMAIN new = DOMAIN old \cup DOMAIN u
    /\ \A k \in DOMAIN u : new[k] = u[k]
    /\ \A k \in DOMAIN old \ DOMAIN u : new[k] = old[k]

\* C18: updateProfile(id, u) on a stored id returns and stores a record in
\* which every field named in u has the value of u and every other field the
\* value it had; every other profile and all connections stay as they were.
\* updateConnection does the same for connections.
C18_UpdateFrame ==
    [][/\ (Called("updateProfile") /\ last'.id \in DOMAIN profiles) =>
            /\ last'.ret # None
            /\ profiles'[last'.id] = last'.ret[1]
            /\ Overwritten(profiles[last'.id], last'.arg, last'.ret[1])
            /\ DOMAIN profiles' = DOMAIN profiles
            /\ \A j \in DOMAIN profiles \ {last'.id} : profiles'[j] = profiles[j]
            /\ connections' = connections
       /\ (Called("updateConnection") /\ last'.id \in DOMAIN connections) =>
            /\ last'.ret # None
            /\ connections'[last'.id] = last'.ret[1]
            /\ Overwritten(connections[last'.id], last'.arg, last'.ret[1])
            /\ DOMAIN connections' = DOMAIN connections
            /\ \A j \in DOMAIN connections \ {last'.id} : connections'[j] = connections[j]
            /\ profiles' = profiles]_vars

\* An updateProfile that set uploadedAt alone, on one of several profiles,
\* after an update of a connection.
C18_Witness ==
    /\ last.op = "updateProfile"
    /\ last.ret # None
    /\ DOMAIN last.arg = {"uploadedAt"}
    /\ Cardinality(DOMAIN profiles) > 1
    /\ \E c \in DOMAIN connections : connections[c] # createdConns[c]

(***************************************************************************)
(* Properties of PprofCli's arguments.                                     *)
(***************************************************************************)
\* The position in `arg` of its k-th character that is no shell character.
KeptPosition(arg, k) ==
    CHOOSE i \in DOMAIN arg :
        /\ arg[i] \notin ShellCharacters
        /\ Cardinality({j \in 1 .. i : arg[j] \notin ShellCharacters}) = k

\* `out` is `arg` without its shell characters, the others in their order.
KeepsTheOthers(arg, out) ==
    /\ Len(out) = Cardinality({i \in DOMAIN arg : arg[i] \notin ShellCharacters})
    /\ \A k \in DOMAIN out : out[k] = arg[KeptPosition(arg, k)]

\* The arguments of the caller that a spawned process received, each with the
\* argument it was received as.
HandedArguments ==
    LET input == cliEntry[1].input
        handed == spawned[1].args
        offset == Len(handed) - Len(input)
    IN {<<input[i], handed[offset + i]>> : i \in DOMAIN input}

\* C11: no argument handed to a spawned process holds one of the characters
\* ; & | " ' ` $ ( ) { } [ ] < >, sanitizing it again returns it as it is, and
\* each argument of the caller arrives with all its other characters, in
\* their order, whether it came through runCommand, fetchRemoteProfile or
\* generateFlamegraph.
C11_ArgumentsSanitized ==
    spawned # None =>
        /\ \A i \in DOMAIN spawned[1].args :
              /\ \A k \in DOMAIN spawned[1].args[i] :
                    spawned[1].args[i][k] \notin ShellCharacters
              /\ sanitizeArgument(spawned[1].args[i]) = spawned[1].args[i]
        /\ Len(spawned[1].args) >= Len(cliEntry[1].input)
        /\ \A pair \in HandedArguments : KeepsTheOthers(pair[1], pair[2])

\* fetchRemoteProfile spawned go with a url that held two shell characters
\* around another one.
C11_Witness ==
    /\ spawned # None
    /\ cliEntry[1].method = "fetchRemoteProfile"
    /\ cliEntry[1].input = << <<";", "a", "$">> >>
    /\ spawned[1].args[5] = <<"a">>
    /\ cliResult # None

(***************************************************************************)
(* Properties of the REST handlers.                                        *)
(***************************************************************************)
\* A step in which the handler of `route` takes up a request.
Requested(route) == steps' # steps /\ Len(trace') > 0 /\ trace'[1].fn = route

\* A step in which POST /cli-profile answers the request it waited with.
CliFinished == cliReq # None /\ cliReq' = None

\* The places of the calls of `fn` in a trace.
CallsOf(tr, fn) == {i \in 2 .. Len(tr) : tr[i].fn = fn}

\* C12 as stated: when the command of POST /cli-profile ends with an exit code
\* other than 0, null included, the answer is a 400 that carries an error
\* string and the exit code, parseData is not called and no profile is added.
C12_FailedCommandWithErrorString ==
    [][CliFinished =>
          LET result == trace'[3].args[1]
          IN result.exitCode # 0 =>
                /\ res'.route = "POST /cli-profile"
                /\ res'.status = 400
                /\ res'.body[1].exitCode = result.exitCode
                /\ res'.body[1].error # None
                /\ CallsOf(trace', "parseData") = {}
                /\ profiles' = profiles
                /\ profileCurrentId' = profileCurrentId]_vars

\* C12, amended: when the command of POST /cli-profile ends with an exit code
\* other than 0, null included, the answer is a 400 that carries the exit code
\* and the error of the command's result, which is absent when the command
\* wrote nothing to its standard error; parseData is not called and no profile
\* is added.
C12_FailedCommand ==
    [][CliFinished =>
          LET result == trace'[3].args[1]
          IN result.exitCode # 0 =>
                /\ res'.route = "POST /cli-profile"
                /\ res'.status = 400
                /\ res'.body[1].exitCode = result.exitCode
                /\ res'.body[1].error = result.error
                /\ CallsOf(trace', "parseData") = {}
                /\ profiles' = profiles
                /\ profileCurrentId' = profileCurrentId]_vars

\* A command a signal ended, after it wrote to its standard error, answered
\* with 400 while the store holds a profile a request added before.
C12_Witness ==
    /\ Len(trace) = 3
    /\ trace[1].fn = "POST /cli-profile"
    /\ res.route = "POST /cli-profile"
    /\ res.status = 400
    /\ res.body[1].exitCode = NullExit
    /\ res.body[1].error # None
    /\ \E id \in DOMAIN profiles : created[id].by = "createProfile"

\* The body of a POST /connections that the insert-connection schema accepts:
\* name and url are strings, isActive, when it is there, a boolean.
ConnectionBodyValid(body) ==
    /\ "name" \in DOMAIN body /\ IsString(body.name)
    /\ "url" \in DOMAIN body /\ IsString(body.url)
    /\ "isActive" \in DOMAIN body => IsBoolean(body.isActive)

\* C13: a POST /connections whose body fails the insert-connection schema is
\* answered with 400 and a formatted validation message that names what
\* failed; no connection is added and the connection counter stays.
C13_InvalidConnectionRejected ==
    [][(Requested("POST /connections") /\ ~ConnectionBodyValid(trace'[1].args[1])) =>
          /\ res'.route = "POST /connections"
          /\ res'.status = 400
          /\ res'.body[1].errors.prefix = "Validation error"
          /\ res'.body[1].errors.at # {}
          /\ CallsOf(trace', "createConnection") = {}
          /\ connections' = connections
          /\ connectionCurrentId' = connectionCurrentId]_vars

\* An empty body rejected after an earlier POST /connections added a connection.
C13_Witness ==
    /\ Len(trace) > 0
    /\ trace[1].fn = "POST /connections"
    /\ trace[1].args[1] = <<>>
    /\ res.route = "POST /connections"
    /\ res.status = 400
    /\ res.body[1].errors.at = {"name", "url"}
    /\ Cardinality(DOMAIN connections) > 1

CreatingRoutes == {"POST /profiles/upload", "POST /fetch-profile", "POST /cli-profile"}

\* C14: a request to a profile-creating route is answered with 201, or with a
\* 4xx or 5xx status; a 4xx or 5xx answer leaves the profile store as it was,
\* a step of such a request that changes the profile store is answered with
\* 201, and a 201 adds the one profile it answers with.
C14_FailuresLeaveStore ==
    [][(/\ Len(trace') > 0
        /\ trace'[1].fn \in CreatingRoutes
        /\ steps' # steps \/ CliFinished) =>
          IF trace'[1].fn = "POST /cli-profile" /\ cliReq = None /\ cliReq' # None
          THEN profiles' = profiles /\ profileCurrentId' = profileCurrentId
          ELSE /\ res'.route = trace'[1].fn
               /\ res'.status = 201 \/ res'.status \in 400 .. 599
               /\ res'.status \in 400 .. 599 =>
                     (profiles' = profiles /\ profileCurrentId' = profileCurrentId)
               /\ profiles' # profiles => res'.status = 201
               /\ res'.status = 201 =>
                     /\ res'.id \notin DOMAIN profiles
                     /\ DOMAIN profiles' = DOMAIN profiles \cup {res'.id}
                     /\ res'.body = Some(profiles'[res'.id])
                     /\ \A j \in DOMAIN profiles : profiles'[j] = profiles[j]]_vars

\* A fetch that failed with 500 while the store holds a profile that an
\* earlier POST /cli-profile added.
C14_Witness ==
    /\ res.route = "POST /fetch-profile"
    /\ res.status = 500
    /\ Len(trace) = 2
    /\ \E id \in DOMAIN profiles : profiles[id].originalFilename = "cli_output.pprof"

\* C16: GET /profiles/:id answers 200 with the stored profile when the id is
\* stored and 404 when it is not, and changes nothing; DELETE /profiles/:id
\* answers 204 and removes that profile alone when the id is stored, and
\* answers 404 and changes nothing when it is not.
C16_GetAndDeleteById ==
    [][/\ Requested("GET /profiles/:id") =>
            LET id == trace'[1].args[1]
            IN /\ res'.route = "GET /profiles/:id"
               /\ IF id \in DOMAIN profiles
                  THEN res'.status = 200 /\ res'.body = Some(profiles[id])
                  ELSE res'.status = 404
               /\ UNCHANGED store
       /\ Requested("DELETE /profiles/:id") =>
            LET id == trace'[1].args[1]
            IN /\ res'.route = "DELETE /profiles/:id"
               /\ IF id \in DOMAIN profiles
                  THEN /\ res'.status = 204
                       /\ DOMAIN profiles' = DOMAIN profiles \ {id}
                       /\ \A j \in DOMAIN profiles' : profiles'[j] = profiles[j]
                       /\ connections' = connections
                  ELSE /\ res'.status = 404
                       /\ UNCHANGED store]_vars

\* A GET answered with 404 for the id of a profile that a DELETE removed.
C16_Witness ==
    /\ res.route = "GET /profiles/:id"
    /\ res.status = 404
    /\ res.id \in deleted
    /\ res.id \notin DOMAIN profiles
    /\ DOMAIN profiles # {}

\* A step in which PATCH /profiles/:id answers a request.
PatchAnswered ==
    /\ Len(trace') > 0
    /\ trace'[1].fn = "PATCH /profiles/:id"
    /\ \/ steps' # steps /\ patchReq' = None
       \/ patchReq # None /\ patchReq' = None

\* C17: every PATCH /profiles/:id calls updateProfile exactly once, with the id
\* of the request and the description and isSaved of its body, whether the
\* profile is stored or not; the answer is 404 exactly when updateProfile
\* returned undefined, and otherwise 200 with the record it returned.
C17_PatchCallsUpdateOnce ==
    [][PatchAnswered =>
          LET id == trace'[1].args[1]
              body == trace'[1].args[2]
              updates == CallsOf(trace', "updateProfile")
          IN /\ Cardinality(updates) = 1
             /\ \A i \in updates :
                   trace'[i].args = <<id, [description |-> Field(body, "description"),
                                           isSaved |-> Field(body, "isSaved")]>>
             /\ (res'.status = 404) = (last'.ret = None)
             /\ res'.status # 404 => (res'.status = 200 /\ res'.body = last'.ret)]_vars

\* A text that is an integer in decimal digits, with or without a minus.
IsIntegerNumeral(str) ==
    LET digits == IF str # <<>> /\ Head(str) = "-" THEN Tail(str) ELSE str
    IN digits # <<>> /\ \A i \in DOMAIN digits : digits[i] \in DigitChars

NumeralValue(str) ==
    IF Head(str) = "-" THEN 0 - DecimalValue(Tail(str)) ELSE DecimalValue(str)

\* C19: GET /profiles/recent calls getRecentProfiles exactly once per request,
\* with 10 when the request has no limit parameter and with the integer the
\* parameter denotes when it has one, and answers with what the call returned.
C19_RecentLimitFromQuery ==
    [][Requested("GET /profiles/recent") =>
          LET query == trace'[1].args[1]
          IN /\ Cardinality(CallsOf(trace', "getRecentProfiles")) = 1
             /\ query = None =>
                   /\ trace'[2].args = <<Some(10)>>
                   /\ res'.body = Some(getRecentProfiles(Some(10)))
             /\ (query # None /\ IsIntegerNumeral(query[1])) =>
                   /\ trace'[2].args = <<Some(NumeralValue(query[1]))>>
                   /\ res'.body = Some(getRecentProfiles(Some(NumeralValue(query[1]))))
             /\ res'.status = 200]_vars

\* A request with limit=-2 after a request without the parameter had been
\* answered and a profile had been deleted.
C19_Witness ==
    /\ Len(trace) = 2
    /\ trace[1].fn = "GET /profiles/recent"
    /\ trace[1].args = <<Some(<<"-", "2">>)>>
    /\ trace[2].args = <<Some(-2)>>
    /\ res.route = "GET /profiles/recent"
    /\ deleted # {}

(***************************************************************************)
(* Properties of parseData and of the function ids.                        *)
(***************************************************************************)
\* The parseData calls that have begun and have not returned or thrown.
Running == {p \in Parsers : parsers[p].pc \in {"writing", "extracting", "unlinking"}}

\* C15: parseData calls that overlap in time each have a temporary file of
\* their own, which stays theirs, with their data, from its writing to its
\* unlink; each call returns, and returns the base64 data and the metadata of
\* its own input.
C15_ParsersIndependent ==
    \A p \in Parsers :
        /\ p \in Running =>
              \A q \in Running \ {p} : parsers[q].tempFilePath # parsers[p].tempFilePath
        /\ parsers[p].pc \in {"extracting", "unlinking"} =>
              /\ parsers[p].tempFilePath \in DOMAIN tempDir
              /\ tempDir[parsers[p].tempFilePath] = parsers[p].rawData
        /\ (parsers[p].pc = "done" /\ parsers[p].kind = "parseData") =>
              /\ parsers[p].thrown = None
              /\ parsers[p].returned[1].data = Base64Buffer(parsers[p].rawData)
              /\ (parsers[p].tool.goInstalled /\ parsers[p].tool.topOk) =>
                    /\ "topFunctions" \in DOMAIN parsers[p].returned[1].metadata
                    /\ parsers[p].returned[1].metadata.topFunctions = parsers[p].rawData

\* C20: generateFunctionId returns the same id for the same function name and
\* different ids for different names.
C20_UniqueFunctionIds ==
    \A a \in DOMAIN functionIds :
        /\ functionIds[a] = generateFunctionId(a)
        /\ \A b \in DOMAIN functionIds : a # b => functionIds[a] # functionIds[b]

(***************************************************************************)
(* Properties of the TopFunctions component.                               *)
(***************************************************************************)
\* C21: after a click on a row of the detailed table no row shows its details
\* when the clicked row was expanded at the click, and otherwise the clicked
\* row, and no other, shows its details.
C21_OneRowExpanded ==
    rowClicked # None =>
        ExpandedRows = IF rowClicked[1].wasExpanded THEN {} ELSE {rowClicked[1].row}

\* C22: with the limit prop a number L and n functions in the metadata, the
\* component displays min(L, n) functions, in descending order of their flat
\* percentage, and none left out has a higher flat percentage than one
\* displayed.
C22_LimitApplied ==
    (topProps # None /\ "topFunctions" \in DOMAIN topProps[1].metadata /\ topProps[1].limit # None) =>
        LET all == topProps[1].metadata.topFunctions
            shown == DisplayedFunctions
        IN /\ Len(shown) = Min(topProps[1].limit[1], Len(all))
           /\ \A i, j \in DOMAIN shown :
                 i < j => parseFloat(shown[i].flatPercent)[1] >= parseFloat(shown[j].flatPercent)[1]
           /\ \A i \in DOMAIN shown : \E k \in DOMAIN all : all[k] = shown[i]
           /\ \A k \in DOMAIN all :
                 (\A i \in DOMAIN shown : shown[i] # all[k]) =>
                     \A i \in DOMAIN shown :
                         parseFloat(shown[i].flatPercent)[1] >= parseFloat(all[k].flatPercent)[1]

(***************************************************************************)
(* Properties of parseFile.                                                *)
(***************************************************************************)
\* The parseFile calls that have settled after their file was read.
ParsedFiles ==
    {p \in Parsers : parsers[p].pc = "done" /\ parsers[p].kind = "parseFile"
                     /\ parsers[p].fileRead}

\* C23: a parseFile call whose file exists and was read returns, whatever the
\* external tool did, with the base64 encoding of the file; its metadata has
\* only the field error when go is missing or the -top invocation failed, and
\* has the top functions of the file when at most the -raw invocation failed.
C23_BestEffortMetadata ==
    \A p \in ParsedFiles :
        LET tool == parsers[p].tool
            result == parsers[p].returned[1]
        IN /\ parsers[p].thrown = None
           /\ parsers[p].returned # None
           /\ result.data = Base64Buffer(parsers[p].file)
           /\ (~tool.goInstalled \/ ~tool.topOk) => DOMAIN result.metadata = {"error"}
           /\ (tool.goInstalled /\ tool.topOk) =>
                 /\ "topFunctions" \in DOMAIN result.metadata
                 /\ result.metadata.topFunctions = MetadataOf(parsers[p].file).topFunctions

\* A parseFile call has returned after only the -raw invocation failed.
C23_Witness ==
    \E p \in ParsedFiles :
        /\ parsers[p].tool = [goInstalled |-> TRUE, topOk |-> TRUE, rawOk |-> FALSE]
        /\ parsers[p].returned # None

(***************************************************************************)
(* Properties of the keys of the store.                                    *)
(***************************************************************************)
\* C24: every stored profile is stored under the key that is its id, so
\* getProfile(k) returns no record of another id and no two stored profiles
\* have the same id; the same for the connections.
C24_StoredUnderOwnId ==
    /\ \A k \in DOMAIN profiles : getProfile(k)[1].id = k
    /\ \A j, k \in DOMAIN profiles : j # k => profiles[j].id # profiles[k].id
    /\ \A k \in DOMAIN connections : connections[k].id = k
    /\ \A j, k \in DOMAIN connections : j # k => connections[j].id # connections[k].id

(***************************************************************************)
(* Properties of the routes that write profiles and connections.           *)
(***************************************************************************)
\* C25: a PATCH /profiles/:id whose body names one of description and isSaved
\* leaves the other of the two as it was stored, and with a body that names
\* description alone the profile stays in or out of the saved profiles.
C25_PatchOneFieldOnly ==
    [][(/\ patchReq # None
        /\ patchReq' = None
        /\ patchReq[1].id \in DOMAIN profiles
        /\ Cardinality(DOMAIN patchReq[1].body \cap {"description", "isSaved"}) = 1)
       => LET id == patchReq[1].id
              body == patchReq[1].body
          IN /\ "description" \notin DOMAIN body =>
                    profiles'[id].description = profiles[id].description
             /\ "isSaved" \notin DOMAIN body =>
                    /\ profiles'[id].isSaved = profiles[id].isSaved
                    /\ Truthy(profiles'[id].isSaved) = Truthy(profiles[id].isSaved)]_vars

\* C26: the profile a POST /profiles/upload creates is stored with isSaved
\* true when the form field isSaved is the text true, and with isSaved false,
\* so out of the saved profiles, when it is the text false or is not sent.
C26_UploadSavedAsAsked ==
    [][(/\ trace'[1].fn = "POST /profiles/upload"
        /\ profileCurrentId' # profileCurrentId)
       => LET body == trace'[1].args[2]
              profile == profiles'[profileCurrentId]
          IN /\ profile.isSaved = IF Field(body, "isSaved") = "'true'" THEN "true" ELSE "false"
             /\ Field(body, "isSaved") # "'true'" =>
                   \A i \in DOMAIN getSavedProfiles' : getSavedProfiles'[i].id # profile.id]_vars

\* C27: every stored connection has a boolean isActive and a lastConnected
\* that is null or a time; one created by a POST /connections whose body has
\* the name and the url alone has isActive false and lastConnected null.
C27_ConnectionDefaults ==
    /\ \A k \in DOMAIN connections :
          /\ "isActive" \in DOMAIN connections[k]
          /\ IsBoolean(connections[k].isActive)
          /\ "lastConnected" \in DOMAIN connections[k]
          /\ connections[k].lastConnected \in {NullTime} \cup (0 .. MaxTime)
    /\ (/\ trace # <<>>
        /\ trace[1].fn = "POST /connections"
        /\ DOMAIN trace[1].args[1] = {"name", "url"}
        /\ res.status = 201)
       => /\ Field(connections[res.id], "isActive") = "false"
          /\ connections[res.id].lastConnected = NullTime

\* C28: with a DELETE /profiles/:id running between the two store calls of a
\* PATCH /profiles/:id, the PATCH is answered with 404 or with 200 and the
\* updated profile, never with 200 and no profile; and a deleted profile is
\* not in the store once no PATCH is in flight.
C28_PatchRacingDelete ==
    /\ res.route = "PATCH /profiles/:id" =>
          \/ res.status = 404
          \/ /\ res.status = 200
             /\ res.body # None
             /\ res.body[1].id = res.id
    /\ patchReq = None => \A id \in deleted : id \notin DOMAIN profiles

(***************************************************************************)
(* Properties of the files.                                                *)
(***************************************************************************)
\* C29: when a POST /profiles/upload that carried a file is answered, with
\* 201, 400 or 500, the file multer wrote for it is not in the uploads
\* directory; and when parseData returns, the temp file it wrote is not in the
\* temp directory.
C29_FilesRemoved ==
    [][/\ (/\ steps' = steps + 1
           /\ trace'[1].fn = "POST /profiles/upload"
           /\ trace'[1].args[1] # None)
          => /\ res'.status \in {201, 400, 500}
             /\ trace'[2].args[1] \notin uploadsDir'
       /\ \A p \in Parsers :
             (/\ parsers[p].pc = "unlinking"
              /\ parsers'[p].pc = "done"
              /\ parsers'[p].returned # None)
             => parsers[p].tempFilePath \notin DOMAIN tempDir']_vars

\* An upload with a file was answered with 500, and a parseData call has
\* returned.
C29_Witness ==
    /\ res.route = "POST /profiles/upload"
    /\ res.status = 500
    /\ trace[1].args[1] # None
    /\ \E p \in Parsers : parsers[p].pc = "done" /\ parsers[p].returned # None

(***************************************************************************)
(* Properties of the promise of runCommand.                                *)
(***************************************************************************)
\* C30: the promise of runCommand settles once and keeps its result. A
\* command that is not allowed and an args value that is no array settle it
\* with exit code 1, no output and an error message, and so does a child whose
\* first event is 'error', whether or not a 'close' follows; a child whose
\* first event is 'close' settles it with the stdout chunks joined in the
\* order of their arrival and with the exit code of the event.
C30_SettlesOnceWithFirst ==
    [][/\ cliResult # None => cliResult' = cliResult
       /\ (/\ cliEntry' # None
           /\ cliEntry'[1].method = "runCommand"
           /\ \/ sanitizeCommand(cliCall'[1].command) = None
              \/ cliCall'[1].args.kind \notin {"array", "undefined"})
          => /\ child' = None
             /\ cliResult' # None
             /\ cliResult'[1].exitCode = 1
             /\ cliResult'[1].output = <<>>
             /\ cliResult'[1].error # None
       /\ (child' # None /\ child'[1].events # <<>>)
          => LET first == child'[1].events[1]
             IN /\ cliResult' # None
                /\ first.event = "error" =>
                      /\ cliResult'[1].exitCode = 1
                      /\ cliResult'[1].output = <<>>
                      /\ cliResult'[1].error # None
                /\ first.event = "close" =>
                      /\ cliResult'[1].exitCode = first.code
                      /\ cliResult'[1].output = Concat(child'[1].chunks)]_vars

\* The child has emitted 'error' and then 'close', and the promise is settled.
C30_Witness ==
    /\ child # None
    /\ Len(child[1].events) = 2
    /\ child[1].events[1].event = "error"
    /\ child[1].events[2].event = "close"
    /\ cliResult # None

====
